---- MODULE Spec2Model ----
(***************************************************************************)
(* A model of the dns-validator repository:                                *)
(*   - DNSValidator.check_propagation      (src/dns_validator.py)          *)
(*   - BulkDomainProcessor.process_domains (src/dns_validator/bulk.py)     *)
(* Each component has its own specification (SpecProp, SpecBulk); the      *)
(* variables of the other component stay at their idle values.             *)
(***************************************************************************)
EXTENDS Integers, Sequences, FiniteSets, TLC

VARIABLES
    \* ---- check_propagation -------------------------------------------
    expected_value,   \* the expected_value argument (None when omitted)
    future,           \* one future per roster server: state and return value
    servers,          \* result["servers"], a dict kept in insertion order
    propagated,       \* result["propagated"]
    consistency,      \* result["consistency"]
    ppc,              \* position of check_propagation's caller thread
    \* ---- process_domains ---------------------------------------------
    domains,          \* the domains argument
    checks,           \* the checks argument
    max_workers,      \* self.max_workers
    progress_callback,\* TRUE when a progress callback was passed
    task,             \* one future per submitted domain
    work_queue,       \* the executor's FIFO work queue (future indices)
    submitted,        \* number of executor.submit calls made so far
    yielded,          \* futures already yielded by as_completed
    cur,              \* the future the loop body is handling (0: none)
    results,          \* self.results
    progress,         \* self.progress
    callback_log,     \* calls of progress_callback, with the progress seen
    summary,          \* the value process_domains returns
    bpc               \* position of process_domains' caller thread

propVars == <<expected_value, future, servers, propagated, consistency, ppc>>
bulkVars == <<domains, checks, max_workers, progress_callback, task, work_queue,
              submitted, yielded, cur, results, progress, callback_log, summary, bpc>>

VARIABLES
    \* ---- check_delegation --------------------------------------------
    deleg_domain,     \* the domain argument
    deleg_result,     \* the result dict
    deleg_calls,      \* the dns.resolver.resolve calls made, with what came back
    dpc               \* position of check_delegation

delegVars == <<deleg_domain, deleg_result, deleg_calls, dpc>>

VARIABLES
    \* ---- detect_dns_provider -----------------------------------------
    ns_records,           \* str(ns) of the NS records the resolver answered
    prov_result,          \* the result dict
    detected_providers,   \* the local set of matched providers
    ns_index,             \* the nameserver the matching loop is at
    vpc                   \* position of detect_dns_provider

provVars == <<ns_records, prov_result, detected_providers, ns_index, vpc>>

VARIABLES
    \* ---- analyze_domain_queries --------------------------------------
    query_types,          \* the query_types argument
    duration,             \* duration_minutes, in ticks
    now,                  \* what datetime.now() gives
    end_time,             \* the end of the sampling window
    sample_count,         \* the rounds started
    query_distribution,   \* analytics_result["query_distribution"]
    geographic_analysis,  \* analytics_result["geographic_analysis"]
    slowest_queries,      \* analytics_result["performance_analysis"]["slowest_queries"]
    analytics_summary,    \* analytics_result["summary"] of the returned result
    caller_got,           \* what the query-analytics command ended with
    apc                   \* position of analyze_domain_queries

anVars == <<query_types, duration, now, end_time, sample_count,
            query_distribution, geographic_analysis, slowest_queries,
            analytics_summary, caller_got, apc>>

VARIABLES
    \* ---- the command line ---------------------------------------------
    command,          \* the subcommand invoked
    verdict,          \* what the command's check has to report
    happened,         \* how the stretches of the command's code ended
    printed,          \* what the command printed: the verdict, or a message
    exit_code,        \* the exit code of the process
    cpc               \* position of the command

cliVars == <<command, verdict, happened, printed, exit_code, cpc>>

VARIABLES
    \* ---- load_domains_from_file ---------------------------------------
    content,          \* the content of the domains file
    lines,            \* the lines _parse_domains_from_text iterates over
    line_index,       \* the line the loop is at
    parsed,           \* the local list domains
    loaded,           \* the list load_domains_from_file returns
    lpc               \* position of load_domains_from_file

loadVars == <<content, lines, line_index, parsed, loaded, lpc>>

VARIABLES
    \* ---- check_provider_settings --------------------------------------
    settings_provider,  \* the provider argument, "" for None
    api_credentials,    \* the api_credentials argument
    settings_result,    \* the dict check_provider_settings returns
    cloudflare_result,  \* the local result of _check_cloudflare_api
    zones_response,     \* what the zones request gave
    records_response,   \* what the dns_records request gave
    spc                 \* position of check_provider_settings

settingsVars == <<settings_provider, api_credentials, settings_result,
                  cloudflare_result, zones_response, records_response, spc>>

VARIABLES
    \* ---- process_domains called again on one processor -----------------
    lists,               \* the list objects made so far, by identity
    self_results,        \* the list self.results is bound to
    self_progress,       \* the dict self.progress is bound to
    returned_summaries,  \* the summaries the calls have returned
    handled,             \* futures the as_completed loop has handled
    rpc                  \* position between and inside the calls

runsVars == <<lists, self_results, self_progress, returned_summaries, handled, rpc>>

vars == <<propVars, bulkVars, delegVars, provVars, anVars, cliVars, loadVars, settingsVars, runsVars>>

\* The variables an action of one operation leaves alone.
notPropVars == <<bulkVars, delegVars, provVars, anVars, cliVars, loadVars, settingsVars, runsVars>>
notBulkVars == <<propVars, delegVars, provVars, anVars, cliVars, loadVars, settingsVars, runsVars>>
notDelegVars == <<propVars, bulkVars, provVars, anVars, cliVars, loadVars, settingsVars, runsVars>>
notProvVars == <<propVars, bulkVars, delegVars, anVars, cliVars, loadVars, settingsVars, runsVars>>
notAnVars == <<propVars, bulkVars, delegVars, provVars, cliVars, loadVars, settingsVars, runsVars>>
notCliVars == <<propVars, bulkVars, delegVars, provVars, anVars, loadVars, settingsVars, runsVars>>
notLoadVars == <<propVars, bulkVars, delegVars, provVars, anVars, cliVars, settingsVars, runsVars>>
notSettingsVars == <<propVars, bulkVars, delegVars, provVars, anVars, cliVars, loadVars, runsVars>>
notRunsVars == <<propVars, bulkVars, delegVars, provVars, anVars, cliVars, loadVars, settingsVars>>

None == "<None>"

(***************************************************************************)
(*                         check_propagation                               *)
(***************************************************************************)

\* Number of roster servers the model queries (the code's roster has 8).
RosterSize == 3

dns_servers_table ==
    << [name |-> "Google Primary",       ip |-> "8.8.8.8"],
       [name |-> "Google Secondary",     ip |-> "8.8.4.4"],
       [name |-> "Cloudflare Primary",   ip |-> "1.1.1.1"],
       [name |-> "Cloudflare Secondary", ip |-> "1.0.0.1"],
       [name |-> "Quad9",                ip |-> "9.9.9.9"],
       [name |-> "OpenDNS",              ip |-> "208.67.222.222"],
       [name |-> "Verisign",             ip |-> "64.6.64.6"],
       [name |-> "Level3",               ip |-> "4.2.2.1"] >>

dns_servers == SubSeq(dns_servers_table, 1, RosterSize)

Roster == 1..Len(dns_servers)

\* Record value lists a resolver can answer with: order and duplicates vary.
ValueLists ==
    { <<"192.0.2.1">>,
      <<"192.0.2.1", "192.0.2.1">>,
      <<"192.0.2.1", "192.0.2.2">>,
      <<"192.0.2.2", "192.0.2.1">> }

\* What resolver.resolve can do for one server: answer, or raise.
ResolverOutcomes ==
    [kind : {"answer"}, values : ValueLists, exc : {""}]
      \cup [kind : {"NXDOMAIN"}, values : {<<>>}, exc : {""}]
      \cup [kind : {"raise"}, values : {<<>>},
            exc : {"The DNS operation timed out.", "All nameservers failed"}]

\* The expected_value arguments tried: omitted, empty, present in some
\* answers, present in none.
ExpectedValues == {None, "", "192.0.2.2", "203.0.113.9"}

\* Python truthiness of the expected_value argument (`if expected_value:`).
Truthy(v) == v # None /\ v # ""

SeqToSet(s) == {s[i] : i \in 1..Len(s)}

\* check_server's return value (name, dict) for one resolver behaviour.
check_server(server_info, o) ==
    IF o.kind = "answer"
      THEN [name |-> server_info.name, ip |-> server_info.ip,
            values |-> o.values, status |-> "success", error |-> ""]
    ELSE IF o.kind = "NXDOMAIN"
      THEN [name |-> server_info.name, ip |-> server_info.ip,
            values |-> <<>>, status |-> "nxdomain", error |-> ""]
      ELSE [name |-> server_info.name, ip |-> server_info.ip,
            values |-> <<>>, status |-> "error", error |-> o.exc]

NoReturn == [name |-> "", ip |-> "", values |-> <<>>, status |-> "", error |-> ""]

\* An outcome that is not a success is not stored.
DictSet_DropFailures(d, entry) ==
    IF entry.status # "success" THEN d
    ELSE IF \E i \in 1..Len(d) : d[i].name = entry.name
      THEN [i \in 1..Len(d) |-> IF d[i].name = entry.name THEN entry ELSE d[i]]
      ELSE Append(d, entry)

\* d[key] = value on a dict kept as a sequence of entries in insertion order.
DictSet(d, entry) ==
    IF \E i \in 1..Len(d) : d[i].name = entry.name
      THEN [i \in 1..Len(d) |-> IF d[i].name = entry.name THEN entry ELSE d[i]]
      ELSE Append(d, entry)

RECURSIVE SelectSeq2(_, _)
\* [s for s in seq if s["status"] == st]
SelectSeq2(seq, st) ==
    IF seq = <<>> THEN <<>>
    ELSE IF Head(seq).status = st
           THEN <<Head(seq)>> \o SelectSeq2(Tail(seq), st)
           ELSE SelectSeq2(Tail(seq), st)

successful_responses(srv) == SelectSeq2(srv, "success")

\* The value lists compared as lists, not as sets.
all_values_as_lists(succ) == [i \in 1..Len(succ) |-> succ[i].values]

\* all_values = [set(s["values"]) for s in successful_responses]
all_values(succ) == [i \in 1..Len(succ) |-> SeqToSet(succ[i].values)]

\* Only the first two responses that arrived are compared.
Inconsistent_FirstTwo(succ) ==
    /\ Len(succ) >= 2
    /\ SeqToSet(succ[1].values) # SeqToSet(succ[2].values)

\* len(set(frozenset(values) for values in all_values)) > 1
Inconsistent(succ) == Cardinality(SeqToSet(all_values(succ))) > 1

\* all(...) in place of any(...).
matches_all(succ, expected) ==
    \A i \in 1..Len(succ) : \E j \in 1..Len(succ[i].values) :
        succ[i].values[j] = expected

\* any(expected_value in s["values"] for s in successful_responses)
matches(succ, expected) ==
    \E i \in 1..Len(succ) : \E j \in 1..Len(succ[i].values) :
        succ[i].values[j] = expected

\* The consistency flag the analysis leaves in the result.
AnalyzeConsistency(srv) ==
    LET succ == successful_responses(srv)
    IN  IF succ = <<>> THEN TRUE ELSE ~Inconsistent(succ)

\* The propagated flag the analysis leaves in the result.
AnalyzePropagated(srv, expected) ==
    LET succ == successful_responses(srv)
    IN  IF succ = <<>> THEN FALSE
        ELSE IF Truthy(expected) THEN matches(succ, expected) ELSE TRUE

PropInit ==
    /\ expected_value \in ExpectedValues
    /\ future = [i \in Roster |-> [state |-> "pending", ret |-> NoReturn]]
    /\ servers = <<>>
    /\ propagated = TRUE
    /\ consistency = TRUE
    /\ ppc = "as_completed"

PropIdle ==
    /\ expected_value = None
    /\ future = <<>>
    /\ servers = <<>>
    /\ propagated = TRUE
    /\ consistency = TRUE
    /\ ppc = "idle"

\* A pool thread runs check_server for roster entry i to its return.
RunCheckServer(i) ==
    /\ ppc = "as_completed"
    /\ future[i].state = "pending"
    /\ \E o \in ResolverOutcomes :
         future' = [future EXCEPT ![i] =
                      [state |-> "done", ret |-> check_server(dns_servers[i], o)]]
    /\ UNCHANGED <<expected_value, servers, propagated, consistency, ppc>>
    /\ UNCHANGED notPropVars

\* as_completed yields a finished future; its result goes into the dict.
CollectServer(i) ==
    /\ ppc = "as_completed"
    /\ future[i].state = "done"
    /\ servers' = DictSet(servers, future[i].ret)
    /\ future' = [future EXCEPT ![i].state = "collected"]
    /\ UNCHANGED <<expected_value, propagated, consistency, ppc>>
    /\ UNCHANGED notPropVars

\* The analysis starts as soon as one future was yielded.
AnalyzeResults_AfterFirst ==
    /\ ppc = "as_completed"
    /\ \E i \in Roster : future[i].state = "collected"
    /\ consistency' = AnalyzeConsistency(servers)
    /\ propagated' = AnalyzePropagated(servers, expected_value)
    /\ ppc' = "returned"
    /\ UNCHANGED <<expected_value, future, servers>>
    /\ UNCHANGED notPropVars

\* All futures were yielded: the analysis sets the flags and the call returns.
AnalyzeResults ==
    /\ ppc = "as_completed"
    /\ \A i \in Roster : future[i].state = "collected"
    /\ consistency' = AnalyzeConsistency(servers)
    /\ propagated' = AnalyzePropagated(servers, expected_value)
    /\ ppc' = "returned"
    /\ UNCHANGED <<expected_value, future, servers>>
    /\ UNCHANGED notPropVars

(***************************************************************************)
(*                  BulkDomainProcessor.process_domains                    *)
(***************************************************************************)

\* Longest domain list and largest worker count the model tries.
MaxDomains == 2
MaxWorkers == 2

\* The domains arguments of length n tried: n different domains, and one
\* domain listed n times.
DomainLists(n) ==
    { [i \in 1..n |-> "d" \o ToString(i) \o ".example"],
      [i \in 1..n |-> "d1.example"] }

\* Check names _process_single_domain dispatches to a validator method.
ValidatorChecks ==
    {"delegation", "propagation", "provider", "dnssec", "security",
     "certificate", "ipv6"}

KnownChecks == ValidatorChecks \cup {"reverse-dns"}

\* The checks arguments tried: none, the CLI default, an unknown kind
\* before a known one, the reverse-dns kind, and an unknown kind between
\* two known ones.
CheckLists ==
    { <<>>,
      <<"delegation", "propagation">>,
      <<"whois", "provider">>,
      <<"reverse-dns">>,
      <<"ipv6", "whois", "reverse-dns">> }

\* What the call(s) made for one check can do.
CheckOutcomes(check) ==
    IF check \in ValidatorChecks THEN {"returns", "raises"}
    ELSE IF check = "reverse-dns"
      THEN {"resolve_raises", "lookup_returns", "lookup_raises"}
      ELSE {"none"}

ExcText(check) == "Exception in " \o check

\* The result dict _process_single_domain starts from.
NewDomainResult(domain) ==
    [domain |-> domain, status |-> "success", checks |-> {}, errors |-> <<>>]

NoDomainResult ==
    [domain |-> "", status |-> "", checks |-> {}, errors |-> <<>>]

\* The except clause appends the text but leaves the status alone.
ValidatorCheckStep_StatusKept(result, check, o) ==
    IF o = "returns"
      THEN [result |-> [result EXCEPT !.checks = @ \cup {<<check, "result">>}],
            raised |-> FALSE]
      ELSE [result |-> [result EXCEPT !.errors = Append(@, ExcText(check))],
            raised |-> TRUE]

\* The exception is noted and the loop goes on to the next check.
ValidatorCheckStep_GoesOn(result, check, o) ==
    IF o = "returns"
      THEN [result |-> [result EXCEPT !.checks = @ \cup {<<check, "result">>}],
            raised |-> FALSE]
      ELSE [result |-> [result EXCEPT !.status = "failed",
                                      !.errors = Append(@, ExcText(check))],
            raised |-> FALSE]

\* result["checks"][check] = self.validator.<method>(domain); an exception
\* of the call reaches the outer handler, which marks the domain failed.
ValidatorCheckStep(result, check, o) ==
    IF o = "returns"
      THEN [result |-> [result EXCEPT !.checks = @ \cup {<<check, "result">>}],
            raised |-> FALSE]
      ELSE [result |-> [result EXCEPT !.status = "failed",
                                      !.errors = Append(@, ExcText(check))],
            raised |-> TRUE]

\* The reverse-dns branch: its own try/except keeps any exception of the A
\* lookup or of check_reverse_dns inside the check's entry.
ReverseDnsStep(result, check, o) ==
    IF o = "lookup_returns"
      THEN [result |-> [result EXCEPT !.checks = @ \cup {<<check, "result">>}],
            raised |-> FALSE]
      ELSE [result |-> [result EXCEPT !.checks =
                          @ \cup {<<check, "error: No A records found">>}],
            raised |-> FALSE]

\* An unknown kind raises instead of being recorded.
UnknownCheckStep_Raises(result, check) ==
    [result |-> [result EXCEPT !.status = "failed",
                               !.errors = Append(@, "Unknown check type: " \o check)],
     raised |-> TRUE]

\* else: result["errors"].append(f"Unknown check type: {check}")
UnknownCheckStep(result, check) ==
    [result |-> [result EXCEPT !.errors =
                   Append(@, "Unknown check type: " \o check)],
     raised |-> FALSE]

\* One iteration of the `for check in checks` loop, outcome `o`.  Returns
\* the result dict and whether an exception reached the outer handler.
ProcessCheck(result, check, o) ==
    IF check \in ValidatorChecks THEN ValidatorCheckStep(result, check, o)
    ELSE IF check = "reverse-dns" THEN ReverseDnsStep(result, check, o)
    ELSE UnknownCheckStep(result, check)

\* Whether a call made for the check raised an exception.
CallRaised(o) == o \in {"raises", "resolve_raises", "lookup_raises"}

\* A pool thread whose domain failed is not given back to the pool.
WorkerAvailable_FailedHoldsThread(t, limit) ==
    Cardinality({i \in DOMAIN t :
        \/ t[i].state = "running"
        \/ t[i].state = "done" /\ t[i].result.status = "failed"}) < limit

\* Futures whose function is being executed by a pool thread.
RunningTasks(t) == {i \in DOMAIN t : t[i].state = "running"}

\* The pool starts one thread more than the limit.
WorkerAvailable_OneExtra(t, limit) == Cardinality(RunningTasks(t)) <= limit

\* A pool thread can take the next work item: the executor starts at most
\* max_workers threads and each runs one work item at a time.
WorkerAvailable(t, limit) == Cardinality(RunningTasks(t)) < limit

\* with self.progress_lock: results.append(result); completed += 1; ...
CountCompleted(p, domain) ==
    [p EXCEPT !.completed = @ + 1, !.current_domain = domain]

\* with self.progress_lock: failed += 1; errors.append({...})
CountFailed(p, domain, e) ==
    [p EXCEPT !.failed = @ + 1,
              !.errors = Append(@, [domain |-> domain, error |-> e])]

\* _generate_summary (elapsed time, rates and printing left out).
GenerateSummary(p, res) ==
    [total_domains |-> p.total, successful |-> p.completed, failed |-> p.failed,
     results |-> res, errors |-> p.errors]

NoSummary ==
    [total_domains |-> 0, successful |-> 0, failed |-> 0,
     results |-> <<>>, errors |-> <<>>]

\* A submitted future.  pos is the position of the checks loop in the
\* checks list.  started counts the calls of _process_single_domain made
\* for it and raised holds the positions in the checks list whose calls
\* raised an exception; neither is read by the program.
NewTask ==
    [state |-> "queued", result |-> NoDomainResult, pos |-> 1, started |-> 0,
     raised |-> {}]

BulkInit ==
    /\ \E n \in 0..MaxDomains : domains \in DomainLists(n)
    /\ checks \in CheckLists
    /\ max_workers \in 1..MaxWorkers
    /\ progress_callback \in BOOLEAN
    /\ task = <<>>
    /\ work_queue = <<>>
    /\ submitted = 0
    /\ yielded = {}
    /\ cur = 0
    /\ results = <<>>
    /\ progress = [total |-> Len(domains), completed |-> 0, failed |-> 0,
                   current_domain |-> "", errors |-> <<>>]
    /\ callback_log = <<>>
    /\ summary = NoSummary
    /\ bpc = "submit"

BulkIdle ==
    /\ domains = <<>>
    /\ checks = <<>>
    /\ max_workers = 1
    /\ progress_callback = FALSE
    /\ task = <<>>
    /\ work_queue = <<>>
    /\ submitted = 0
    /\ yielded = {}
    /\ cur = 0
    /\ results = <<>>
    /\ progress = [total |-> 0, completed |-> 0, failed |-> 0,
                   current_domain |-> "", errors |-> <<>>]
    /\ callback_log = <<>>
    /\ summary = NoSummary
    /\ bpc = "idle"

bulkInputs == <<domains, checks, max_workers, progress_callback>>

\* executor.submit(self._process_single_domain, domain, checks) for the
\* next domain of the list.
Submit ==
    /\ bpc = "submit"
    /\ submitted < Len(domains)
    /\ submitted' = submitted + 1
    /\ task' = Append(task, NewTask)
    /\ work_queue' = Append(work_queue, submitted + 1)
    /\ UNCHANGED <<yielded, cur, results, progress, callback_log, summary, bpc>>
    /\ UNCHANGED bulkInputs
    /\ UNCHANGED notBulkVars

\* Every domain was submitted: the caller enters the as_completed loop.
SubmitDone ==
    /\ bpc = "submit"
    /\ submitted = Len(domains)
    /\ bpc' = "as_completed"
    /\ UNCHANGED <<task, work_queue, submitted, yielded, cur, results, progress,
                   callback_log, summary>>
    /\ UNCHANGED bulkInputs
    /\ UNCHANGED notBulkVars

\* The work item is left in the queue when it is taken.
WorkerStart_NoDequeue ==
    /\ work_queue # <<>>
    /\ WorkerAvailable(task, max_workers)
    /\ task[Head(work_queue)].started < 2
    /\ LET i == Head(work_queue)
       IN  task' = [task EXCEPT ![i] =
                      [state |-> "running",
                       result |-> NewDomainResult(domains[i]), pos |-> 1,
                       started |-> @.started + 1, raised |-> {}]]
    /\ UNCHANGED <<work_queue, submitted, yielded, cur, results, progress,
                   callback_log, summary, bpc>>
    /\ UNCHANGED bulkInputs
    /\ UNCHANGED notBulkVars

\* A pool thread takes the head of the work queue and enters
\* _process_single_domain, which builds the initial result dict.
WorkerStart ==
    /\ work_queue # <<>>
    /\ WorkerAvailable(task, max_workers)
    /\ LET i == Head(work_queue)
       IN  task' = [task EXCEPT ![i] =
                      [state |-> "running",
                       result |-> NewDomainResult(domains[i]), pos |-> 1,
                       started |-> @.started + 1, raised |-> {}]]
    /\ work_queue' = Tail(work_queue)
    /\ UNCHANGED <<submitted, yielded, cur, results, progress, callback_log,
                   summary, bpc>>
    /\ UNCHANGED bulkInputs
    /\ UNCHANGED notBulkVars

\* The thread running future i executes one iteration of the checks loop
\* of _process_single_domain on its own result dict.  When an exception
\* reaches the outer handler the function returns: the future is finished
\* and the pool thread is free again.
RunNextCheck(i) ==
    /\ task[i].state = "running"
    /\ task[i].pos <= Len(checks)
    /\ \E o \in CheckOutcomes(checks[task[i].pos]) :
         LET r == ProcessCheck(task[i].result, checks[task[i].pos], o)
         IN  task' = [task EXCEPT
                        ![i].result = r.result,
                        ![i].raised = IF CallRaised(o) THEN @ \cup {task[i].pos} ELSE @,
                        ![i].pos = IF r.raised THEN @ ELSE @ + 1,
                        ![i].state = IF r.raised THEN "done" ELSE @]
    /\ UNCHANGED <<work_queue, submitted, yielded, cur, results, progress,
                   callback_log, summary, bpc>>
    /\ UNCHANGED bulkInputs
    /\ UNCHANGED notBulkVars

\* The checks loop of future i ended without an exception: the function
\* returns the result, the future is finished and the pool thread is free.
ReturnDomainResult(i) ==
    /\ task[i].state = "running"
    /\ task[i].pos > Len(checks)
    /\ task' = [task EXCEPT ![i].state = "done"]
    /\ UNCHANGED <<work_queue, submitted, yielded, cur, results, progress,
                   callback_log, summary, bpc>>
    /\ UNCHANGED bulkInputs
    /\ UNCHANGED notBulkVars

\* The callback is skipped for a domain whose result has status failed.
CollectResult_SkipFailed(i) ==
    /\ bpc = "as_completed"
    /\ i \notin yielded
    /\ task[i].state = "done"
    /\ yielded' = yielded \cup {i}
    /\ cur' = IF task[i].result.status = "failed" THEN 0 ELSE i
    /\ results' = Append(results, task[i].result)
    /\ progress' = CountCompleted(progress, domains[i])
    /\ bpc' = IF task[i].result.status = "failed" THEN "as_completed" ELSE "notify"
    /\ UNCHANGED <<task, work_queue, submitted, callback_log, summary>>
    /\ UNCHANGED bulkInputs
    /\ UNCHANGED notBulkVars

\* The result is taken from a future whose function is still running.
CollectResult_BeforeReturn(i) ==
    /\ bpc = "as_completed"
    /\ i \notin yielded
    /\ task[i].state \in {"running", "done"}
    /\ yielded' = yielded \cup {i}
    /\ cur' = i
    /\ results' = Append(results, task[i].result)
    /\ progress' = CountCompleted(progress, domains[i])
    /\ bpc' = "notify"
    /\ UNCHANGED <<task, work_queue, submitted, callback_log, summary>>
    /\ UNCHANGED bulkInputs
    /\ UNCHANGED notBulkVars

\* as_completed yields finished future i; future.result() returns, the
\* result is appended and counted under the lock.
CollectResult(i) ==
    /\ bpc = "as_completed"
    /\ i \notin yielded
    /\ task[i].state = "done"
    /\ yielded' = yielded \cup {i}
    /\ cur' = i
    /\ results' = Append(results, task[i].result)
    /\ progress' = CountCompleted(progress, domains[i])
    /\ bpc' = "notify"
    /\ UNCHANGED <<task, work_queue, submitted, callback_log, summary>>
    /\ UNCHANGED bulkInputs
    /\ UNCHANGED notBulkVars

\* progress_callback(self.progress) returns normally.
CallbackReturns ==
    /\ bpc = "notify"
    /\ progress_callback
    /\ callback_log' = Append(callback_log, [future |-> cur, seen |-> progress])
    /\ cur' = 0
    /\ bpc' = "as_completed"
    /\ UNCHANGED <<task, work_queue, submitted, yielded, results, progress, summary>>
    /\ UNCHANGED bulkInputs
    /\ UNCHANGED notBulkVars

\* progress_callback(self.progress) raises: the loop's except clause counts
\* the domain as failed and prints a progress line.
CallbackRaises ==
    /\ bpc = "notify"
    /\ progress_callback
    /\ callback_log' = Append(callback_log, [future |-> cur, seen |-> progress])
    /\ progress' = CountFailed(progress, domains[cur], "callback error")
    /\ cur' = 0
    /\ bpc' = "as_completed"
    /\ UNCHANGED <<task, work_queue, submitted, yielded, results, summary>>
    /\ UNCHANGED bulkInputs
    /\ UNCHANGED notBulkVars

\* No callback: self._print_progress(domain, result status).
PrintProgress ==
    /\ bpc = "notify"
    /\ ~progress_callback
    /\ cur' = 0
    /\ bpc' = "as_completed"
    /\ UNCHANGED <<task, work_queue, submitted, yielded, results, progress,
                   callback_log, summary>>
    /\ UNCHANGED bulkInputs
    /\ UNCHANGED notBulkVars

\* The loop ended (every future was yielded), the executor is shut down and
\* the summary is generated and returned.
ReturnSummary ==
    /\ bpc = "as_completed"
    /\ yielded = 1..Len(domains)
    /\ summary' = GenerateSummary(progress, results)
    /\ bpc' = "returned"
    /\ UNCHANGED <<task, work_queue, submitted, yielded, cur, results, progress,
                   callback_log>>
    /\ UNCHANGED bulkInputs
    /\ UNCHANGED notBulkVars

\* KeyboardInterrupt is raised in the caller's thread while it submits, waits
\* in as_completed or handles a result.  It is not an Exception, so the
\* loop's except clause lets it pass and it reaches the end of the with
\* block, where the executor is shut down.
KeyboardInterruptInBatch ==
    /\ bpc \in {"submit", "as_completed", "notify"}
    /\ bpc' = "shutdown"
    /\ cur' = 0
    /\ UNCHANGED <<task, work_queue, submitted, yielded, results, progress,
                   callback_log, summary>>
    /\ UNCHANGED bulkInputs
    /\ UNCHANGED notBulkVars

\* ThreadPoolExecutor.__exit__ is shutdown(wait=True): it returns when the
\* pool threads have run every submitted work item, the queued ones
\* included.  Then the interrupt leaves process_domains and the bulk command
\* prints that the processing was interrupted.
ShutdownAfterInterrupt ==
    /\ bpc = "shutdown"
    /\ work_queue = <<>>
    /\ RunningTasks(task) = {}
    /\ bpc' = "interrupted"
    /\ UNCHANGED <<task, work_queue, submitted, yielded, cur, results, progress,
                   callback_log, summary>>
    /\ UNCHANGED bulkInputs
    /\ UNCHANGED notBulkVars

(***************************************************************************)
(*                    DNSValidator.check_delegation                        *)
(***************************************************************************)

\* Position of the first "." of a string, 0 when it has none.
FirstDot(str) ==
    LET dots == {i \in 1..Len(str) : SubSeq(str, i, i) = "."}
    IN  IF dots = {} THEN 0 ELSE CHOOSE i \in dots : \A j \in dots : i <= j

RECURSIVE SplitDots(_)
\* str.split('.')
SplitDots(str) ==
    IF FirstDot(str) = 0 THEN <<str>>
    ELSE <<SubSeq(str, 1, FirstDot(str) - 1)>>
           \o SplitDots(SubSeq(str, FirstDot(str) + 1, Len(str)))

RECURSIVE JoinDots(_)
\* '.'.join(labels)
JoinDots(labels) ==
    IF labels = <<>> THEN ""
    ELSE IF Len(labels) = 1 THEN labels[1]
    ELSE labels[1] \o "." \o JoinDots(Tail(labels))

\* parent_domain = '.'.join(domain.split('.')[1:])
parent_domain(domain) == JoinDots(Tail(SplitDots(domain)))

\* The domain arguments tried: two and three labels, a single label, and
\* names written with the root dot.
DelegDomains ==
    {"example.com", "www.example.com", "com", "example.com.", "localhost."}

\* NS record lists (str(ns) of each record) a resolution can return.
NsAnswers ==
    { <<>>, <<"ns1.example.">>, <<"ns1.example.", "ns2.example.">> }

\* What dns.resolver.resolve(name, 'NS') can do: answer, or raise.
NsOutcomes ==
    [kind : {"answer"}, records : NsAnswers, exc : {""}]
      \cup [kind : {"NXDOMAIN"}, records : {<<>>},
            exc : {"The DNS query name does not exist"}]
      \cup [kind : {"raise"}, records : {<<>>},
            exc : {"The DNS response does not contain an answer to the question",
                   "The DNS operation timed out."}]

NewDelegResult ==
    [authoritative_servers |-> <<>>, parent_servers |-> <<>>,
     delegation_valid |-> FALSE, errors |-> <<>>]

\* The handlers are tried in the other order: the general one comes first.
DomainNsStep_GeneralHandlerFirst(result, domain, o) ==
    IF o.kind = "answer"
      THEN [result EXCEPT !.authoritative_servers = o.records]
      ELSE [result EXCEPT !.errors =
              Append(@, "Error checking delegation: " \o o.exc)]

\* ns_records = dns.resolver.resolve(domain, 'NS') and, when it raises, the
\* except clause that handles it.
DomainNsStep(result, domain, o) ==
    IF o.kind = "answer"
      THEN [result EXCEPT !.authoritative_servers = o.records]
    ELSE IF o.kind = "NXDOMAIN"
      THEN [result EXCEPT !.errors =
              Append(@, "Domain " \o domain \o " does not exist")]
      ELSE [result EXCEPT !.errors =
              Append(@, "Error checking delegation: " \o o.exc)]

\* A failure of the parent's resolution is put into the errors.
ParentNsStep_FailureIsError(result, o) ==
    IF o.kind = "answer"
      THEN [result EXCEPT !.parent_servers = o.records]
      ELSE [result EXCEPT !.errors =
              Append(@, "Could not resolve parent NS records: " \o o.exc)]

\* parent_ns = dns.resolver.resolve(parent_domain, 'NS') inside its own
\* try/except, which only logs a warning.
ParentNsStep(result, o) ==
    IF o.kind = "answer"
      THEN [result EXCEPT !.parent_servers = o.records]
      ELSE result

\* The delegation counts as valid only when the parent answered as well.
VerifyStep_NeedsParent(result) ==
    IF result.authoritative_servers # <<>> /\ result.parent_servers # <<>>
      THEN [result EXCEPT !.delegation_valid = TRUE]
      ELSE [result EXCEPT !.errors = Append(@, "No authoritative servers found")]

\* An empty answer leaves the result without an error.
VerifyStep_SilentWhenEmpty(result) ==
    IF result.authoritative_servers # <<>>
      THEN [result EXCEPT !.delegation_valid = TRUE]
      ELSE result

\* if result["authoritative_servers"]: ... else: ...
VerifyStep(result) ==
    IF result.authoritative_servers # <<>>
      THEN [result EXCEPT !.delegation_valid = TRUE]
      ELSE [result EXCEPT !.errors = Append(@, "No authoritative servers found")]

DelegInit ==
    /\ deleg_domain \in DelegDomains
    /\ deleg_result = NewDelegResult
    /\ deleg_calls = <<>>
    /\ dpc = "resolve"

DelegIdle ==
    /\ deleg_domain = ""
    /\ deleg_result = NewDelegResult
    /\ deleg_calls = <<>>
    /\ dpc = "idle"

\* The domain's own NS resolution: on an answer the function goes on to
\* the parent (if it has one), on an exception it returns.
ResolveDomainNS ==
    /\ dpc = "resolve"
    /\ \E o \in NsOutcomes :
         /\ deleg_result' = DomainNsStep(deleg_result, deleg_domain, o)
         /\ deleg_calls' = Append(deleg_calls, [name |-> deleg_domain, outcome |-> o])
         /\ dpc' = IF o.kind # "answer" THEN "returned"
                   ELSE IF parent_domain(deleg_domain) # "" THEN "resolve_parent"
                   ELSE "verify"
    /\ UNCHANGED deleg_domain
    /\ UNCHANGED notDelegVars

\* The parent domain's NS resolution.
ResolveParentNS ==
    /\ dpc = "resolve_parent"
    /\ \E o \in NsOutcomes :
         /\ deleg_result' = ParentNsStep(deleg_result, o)
         /\ deleg_calls' = Append(deleg_calls,
                [name |-> parent_domain(deleg_domain), outcome |-> o])
    /\ dpc' = "verify"
    /\ UNCHANGED deleg_domain
    /\ UNCHANGED notDelegVars

\* The validity is decided and the result returned.
VerifyDelegation ==
    /\ dpc = "verify"
    /\ deleg_result' = VerifyStep(deleg_result)
    /\ dpc' = "returned"
    /\ UNCHANGED <<deleg_domain, deleg_calls>>
    /\ UNCHANGED notDelegVars

DelegNext ==
    \/ ResolveDomainNS
    \/ ResolveParentNS
    \/ VerifyDelegation

(***************************************************************************)
(*                   DNSValidator.detect_dns_provider                      *)
(***************************************************************************)

\* The most NS records one answer holds.
MaxNameservers == 2

\* provider_patterns, in the order the dict literal inserts its keys.
provider_patterns ==
    << [provider |-> "Cloudflare",
        patterns |-> <<"cloudflare.com", "ns.cloudflare.com">>],
       [provider |-> "AWS Route 53",
        patterns |-> <<"awsdns", "amazonaws.com", "amzndns">>],
       [provider |-> "Google Cloud DNS",
        patterns |-> <<"googledomains.com", "google.com", "ns-cloud">>],
       [provider |-> "Azure DNS",
        patterns |-> <<"azure-dns.com", "azure-dns.net", "azure-dns.org",
                       "azure-dns.info">>],
       [provider |-> "DigitalOcean",
        patterns |-> <<"digitalocean.com", "ns1.digitalocean.com",
                       "ns2.digitalocean.com", "ns3.digitalocean.com">>],
       [provider |-> "Namecheap",
        patterns |-> <<"namecheap.com", "registrar-servers.com">>],
       [provider |-> "GoDaddy",
        patterns |-> <<"domaincontrol.com", "godaddy.com">>],
       [provider |-> "Quad9", patterns |-> <<"quad9.net">>],
       [provider |-> "OpenDNS",
        patterns |-> <<"opendns.com", "umbrella.com">>],
       [provider |-> "Verisign", patterns |-> <<"verisign-grs.com">>],
       [provider |-> "DNS Made Easy", patterns |-> <<"dnsmadeeasy.com">>],
       [provider |-> "Dyn", patterns |-> <<"dynect.net", "dyn.com">>],
       [provider |-> "Hurricane Electric", patterns |-> <<"he.net">>],
       [provider |-> "ClouDNS", patterns |-> <<"cloudns.net">>],
       [provider |-> "Porkbun", patterns |-> <<"porkbun.com">>],
       [provider |-> "Name.com", patterns |-> <<"name.com">>],
       [provider |-> "Domain.com", patterns |-> <<"domain.com">>],
       [provider |-> "Network Solutions",
        patterns |-> <<"worldnic.com", "networksolutions.com">>],
       [provider |-> "1&1 IONOS",
        patterns |-> <<"1and1.com", "ionos.com", "ui-dns.com">>],
       [provider |-> "Hostinger", patterns |-> <<"hostinger.com">>],
       [provider |-> "Bluehost", patterns |-> <<"bluehost.com">>],
       [provider |-> "Hover", patterns |-> <<"hover.com">>],
       [provider |-> "Gandi", patterns |-> <<"gandi.net">>],
       [provider |-> "Dynadot", patterns |-> <<"dynadot.com">>],
       [provider |-> "eNom", patterns |-> <<"enom.com">>],
       [provider |-> "Register.com", patterns |-> <<"register.com">>],
       [provider |-> "Tucows", patterns |-> <<"tucows.com">>],
       [provider |-> "FastDomain", patterns |-> <<"fastdomain.com">>],
       [provider |-> "Linode", patterns |-> <<"linode.com">>],
       [provider |-> "Vultr", patterns |-> <<"vultr.com">>],
       [provider |-> "OVH", patterns |-> <<"ovh.net", "ovh.com">>],
       [provider |-> "Hetzner", patterns |-> <<"hetzner.com">>],
       [provider |-> "Scaleway", patterns |-> <<"scaleway.com">>],
       [provider |-> "No-IP", patterns |-> <<"no-ip.com">>],
       [provider |-> "DuckDNS", patterns |-> <<"duckdns.org">>],
       [provider |-> "FreeDNS", patterns |-> <<"afraid.org">>],
       [provider |-> "Zonomi", patterns |-> <<"zonomi.com">>],
       [provider |-> "NS1", patterns |-> <<"nsone.net">>],
       [provider |-> "Constellix", patterns |-> <<"constellix.com">>],
       [provider |-> "UltraDNS",
        patterns |-> <<"ultradns.com", "ultradns.net">>],
       [provider |-> "Neustar", patterns |-> <<"neustar.biz">>],
       [provider |-> "Easydns", patterns |-> <<"easydns.com">>],
       [provider |-> "Rage4", patterns |-> <<"r4ns.com">>],
       [provider |-> "PowerDNS", patterns |-> <<"powerdns.com">>],
       [provider |-> "BuddyNS", patterns |-> <<"buddyns.com">>],
       [provider |-> "GeoDNS", patterns |-> <<"geodns.com">>],
       [provider |-> "PointDNS", patterns |-> <<"pointhq.com">>],
       [provider |-> "Route53 Resolver",
        patterns |-> <<"resolver.dns-oarc.net">>],
       [provider |-> "Yandex DNS", patterns |-> <<"yandex.net">>],
       [provider |-> "Selectel", patterns |-> <<"selectel.ru">>],
       [provider |-> "Reg.ru", patterns |-> <<"reg.ru">>],
       [provider |-> "Timeweb", patterns |-> <<"timeweb.ru">>] >>

ProviderNames == {provider_patterns[k].provider : k \in DOMAIN provider_patterns}

UpperCase == "ABCDEFGHIJKLMNOPQRSTUVWXYZ"
LowerCase == "abcdefghijklmnopqrstuvwxyz"

\* One character lower-cased.
LowerChar(c) ==
    IF \E k \in 1..Len(UpperCase) : SubSeq(UpperCase, k, k) = c
      THEN LET k == CHOOSE k \in 1..Len(UpperCase) : SubSeq(UpperCase, k, k) = c
           IN  SubSeq(LowerCase, k, k)
      ELSE c

RECURSIVE Lower(_)
\* str.lower()
Lower(str) ==
    IF str = "" THEN ""
    ELSE LowerChar(SubSeq(str, 1, 1)) \o Lower(SubSeq(str, 2, Len(str)))

RECURSIVE RStripDots(_)
\* str.rstrip('.')
RStripDots(str) ==
    IF str # "" /\ SubSeq(str, Len(str), Len(str)) = "."
      THEN RStripDots(SubSeq(str, 1, Len(str) - 1))
      ELSE str

\* pattern in nameserver
Contains(pattern, str) ==
    \E k \in 1..(Len(str) - Len(pattern) + 1) :
        SubSeq(str, k, k + Len(pattern) - 1) = pattern

\* The record's text is only stripped of its root dot, its case is kept.
normalize_KeepCase(ns) == RStripDots(ns)

\* str(ns).lower().rstrip('.')
normalize(ns) == RStripDots(Lower(ns))

\* any(pattern in nameserver for pattern in patterns)
any_pattern_in(patterns, nameserver) ==
    \E k \in DOMAIN patterns : Contains(patterns[k], nameserver)

\* The providers the inner for loop adds for one nameserver.
providers_of(nameserver) ==
    {provider_patterns[k].provider : k \in
        {k \in DOMAIN provider_patterns :
            any_pattern_in(provider_patterns[k].patterns, nameserver)}}

\* list(a_set): the elements, each once, in the order the set iterates
\* them.  That order follows the strings' hashes, not the insertions, so
\* every order is possible.
ListsOf(a_set) ==
    {l \in [1..Cardinality(a_set) -> a_set] :
        \A a, b \in 1..Cardinality(a_set) : a # b => l[a] # l[b]}

\* A single detected provider is not taken as primary.
primary_of_NeedsTwo(listed) ==
    IF Len(listed) > 1 THEN listed[1] ELSE "Unknown"

\* if detected_providers: primary = list(detected_providers)[0], else the
\* initial "Unknown" stays.
primary_of(listed) ==
    IF listed # <<>> THEN listed[1] ELSE "Unknown"

\* str(ns) of NS records as the resolver hands them over: absolute names,
\* in the case the zone spells them.
RawNameservers ==
    {"ns1.cloudflare.com.", "NS2.Cloudflare.COM.", "ns-1.awsdns-01.org.",
     "ns-cloud-a1.googledomains.com.", "dns1.registrar-servers.com.",
     "ns1.hostname.com.", "ns1.example.org."}

RECURSIVE SeqsUpTo(_, _)
\* The sequences over a_set of 0 to n elements.
SeqsUpTo(a_set, n) ==
    IF n = 0 THEN {<<>>}
    ELSE SeqsUpTo(a_set, n - 1)
           \cup {Append(l, x) : l \in {l \in SeqsUpTo(a_set, n - 1) : Len(l) = n - 1},
                                x \in a_set}

\* What dns.resolver.resolve(domain, 'NS') can do: answer with at least one
\* record, or raise.
ProviderNsOutcomes ==
    [kind : {"answer"},
     records : SeqsUpTo(RawNameservers, MaxNameservers) \ {<<>>},
     exc : {""}]
      \cup [kind : {"raise"}, records : {<<>>},
            exc : {"The DNS query name does not exist",
                   "The DNS operation timed out."}]

NewProviderResult ==
    [detected_providers |-> <<>>, nameservers |-> <<>>,
     primary_provider |-> "Unknown", errors |-> <<>>]

ProvInit ==
    /\ ns_records = <<>>
    /\ prov_result = NewProviderResult
    /\ detected_providers = {}
    /\ ns_index = 1
    /\ vpc = "resolve"

ProvIdle ==
    /\ ns_records = <<>>
    /\ prov_result = NewProviderResult
    /\ detected_providers = {}
    /\ ns_index = 1
    /\ vpc = "idle"

\* The NS records arrive and are normalised.
ResolveNameservers ==
    /\ vpc = "resolve"
    /\ \E o \in ProviderNsOutcomes :
         /\ o.kind = "answer"
         /\ ns_records' = o.records
         /\ prov_result' = [prov_result EXCEPT !.nameservers =
                [k \in 1..Len(o.records) |-> normalize(o.records[k])]]
    /\ vpc' = "match"
    /\ UNCHANGED <<detected_providers, ns_index>>
    /\ UNCHANGED notProvVars

\* The exception is swallowed without a trace in the result.
ResolveNameserversFails_Silent ==
    /\ vpc = "resolve"
    /\ vpc' = "returned"
    /\ UNCHANGED <<ns_records, prov_result, detected_providers, ns_index>>
    /\ UNCHANGED notProvVars

\* The resolution raises: the except clause records it and the function
\* returns.
ResolveNameserversFails ==
    /\ vpc = "resolve"
    /\ \E o \in ProviderNsOutcomes :
         /\ o.kind = "raise"
         /\ prov_result' = [prov_result EXCEPT !.errors =
                Append(@, "Could not resolve nameservers: " \o o.exc)]
    /\ vpc' = "returned"
    /\ UNCHANGED <<ns_records, detected_providers, ns_index>>
    /\ UNCHANGED notProvVars

\* One turn of the loop over the nameservers.
MatchNameserver ==
    /\ vpc = "match"
    /\ ns_index <= Len(prov_result.nameservers)
    /\ detected_providers' =
          detected_providers \cup providers_of(prov_result.nameservers[ns_index])
    /\ ns_index' = ns_index + 1
    /\ UNCHANGED <<ns_records, prov_result, vpc>>
    /\ UNCHANGED notProvVars

\* After the loop: the set is listed, the primary provider picked and the
\* result returned.  Both list() calls are on the same unchanged set and so
\* give the same order.
ListProviders ==
    /\ vpc = "match"
    /\ ns_index > Len(prov_result.nameservers)
    /\ \E listed \in ListsOf(detected_providers) :
         prov_result' = [prov_result EXCEPT
                            !.detected_providers = listed,
                            !.primary_provider = primary_of(listed)]
    /\ vpc' = "returned"
    /\ UNCHANGED <<ns_records, detected_providers, ns_index>>
    /\ UNCHANGED notProvVars

ProvNext ==
    \/ ResolveNameservers
    \/ ResolveNameserversFails
    \/ MatchNameserver
    \/ ListProviders

(***************************************************************************)
(*               DNSQueryAnalytics.analyze_domain_queries                  *)
(*                                                                         *)
(* Time is counted in ticks of one sampling interval; the window lasts     *)
(* `duration` ticks.  Of the running aggregate the model keeps what the    *)
(* summary is computed from: query_distribution, the location and anycast  *)
(* sets of geographic_analysis and slowest_queries of                      *)
(* performance_analysis.                                                   *)
(***************************************************************************)

\* The longest sampling window, in ticks.
MaxDuration == 2

\* None, where the value is otherwise a number.
NoNumber == -1

\* A dict without keys.
EmptyDict == [k \in {} |-> 0]

\* d[key] = value
DictPut(d, key, value) ==
    [k \in DOMAIN d \cup {key} |-> IF k = key THEN value ELSE d[k]]

\* The query_types arguments tried.
QueryTypeLists == { <<"A">>, <<"A", "MX">> }

\* What one resolve of _collect_query_sample gives for a type: the number of
\* records and the response time of an answer, or the name of the exception.
SampleOutcomes ==
    { [status |-> "success", queries |-> 1, response_time |-> 400],
      [status |-> "success", queries |-> 2, response_time |-> 1600],
      [status |-> "Timeout", queries |-> 0, response_time |-> NoNumber] }

\* What one resolve of _measure_query_performance gives for a type: time_ms,
\* NoNumber when it failed.  A clock that has not moved on between the two
\* time.time() readings gives 0.
PerformanceOutcomes == {NoNumber, 0, 400, 1600}

\* What _analyze_geographic_distribution finds in a round: the countries
\* guessed for the nameservers and the nameservers that look anycast.  The
\* first is a round whose NS resolution failed.
GeoOutcomes ==
    { [locations |-> {}, anycast |-> {}],
      [locations |-> {"Unknown"}, anycast |-> {}],
      [locations |-> {"US (Google)"}, anycast |-> {"ns1.google.com"}],
      [locations |-> {"EU", "APAC"}, anycast |-> {}] }

\* query_distribution as _update_query_distribution creates it.
NewQueryDistribution ==
    [total_samples |-> 0, query_counts |-> EmptyDict,
     success_rates |-> EmptyDict, average_response_times |-> EmptyDict]

\* geographic_analysis as _update_geographic_analysis creates it.
NewGeographicAnalysis == [location_frequency |-> {}, anycast_servers |-> {}]

\* d.get(key) of a dict of counters, with the entry a missing key is given.
GetOr(d, key, default) == IF key \in DOMAIN d THEN d[key] ELSE default

\* A type whose query failed is left out of the round's update.
update_query_type_SkipFailed(dist, qtype, o) ==
    LET qc == GetOr(dist.query_counts, qtype, [total |-> 0, samples |-> 0])
        sr == GetOr(dist.success_rates, qtype, [success |-> 0, total |-> 0])
        rt == GetOr(dist.average_response_times, qtype,
                    [total_time |-> 0, count |-> 0])
    IN  IF o.status # "success" THEN dist
        ELSE [dist EXCEPT
               !.query_counts = DictPut(@, qtype,
                   [total |-> qc.total + o.queries, samples |-> qc.samples + 1]),
               !.success_rates = DictPut(@, qtype,
                   [success |-> sr.success + 1, total |-> sr.total + 1]),
               !.average_response_times = DictPut(@, qtype,
                   [total_time |-> rt.total_time + o.response_time,
                    count |-> rt.count + 1])]

\* The body of the for loop of _update_query_distribution for one type.
update_query_type(dist, qtype, o) ==
    LET qc == GetOr(dist.query_counts, qtype, [total |-> 0, samples |-> 0])
        sr == GetOr(dist.success_rates, qtype, [success |-> 0, total |-> 0])
        rt == GetOr(dist.average_response_times, qtype,
                    [total_time |-> 0, count |-> 0])
    IN  [dist EXCEPT
           !.query_counts = DictPut(@, qtype,
               [total |-> qc.total + o.queries, samples |-> qc.samples + 1]),
           !.success_rates = DictPut(@, qtype,
               [success |-> IF o.status = "success" THEN sr.success + 1
                            ELSE sr.success,
                total |-> sr.total + 1]),
           !.average_response_times = DictPut(@, qtype,
               IF o.response_time # NoNumber
                 THEN [total_time |-> rt.total_time + o.response_time,
                       count |-> rt.count + 1]
                 ELSE rt)]

RECURSIVE update_query_types(_, _, _, _)
\* The for loop of _update_query_distribution from the p-th type on.
update_query_types(dist, qtypes, sample, p) ==
    IF p > Len(qtypes) THEN dist
    ELSE update_query_types(update_query_type(dist, qtypes[p], sample[qtypes[p]]),
                            qtypes, sample, p + 1)

\* _update_query_distribution(current_dist, sample_data)
update_query_distribution(current_dist, qtypes, sample) ==
    update_query_types(
        [current_dist EXCEPT !.total_samples = @ + 1], qtypes, sample, 1)

\* _update_geographic_analysis(current_geo, geo_data)
update_geographic_analysis(current_geo, geo_data) ==
    [location_frequency |-> current_geo.location_frequency \cup geo_data.locations,
     anycast_servers |-> current_geo.anycast_servers \cup geo_data.anycast]

\* The slowest_queries part of the for loop of _update_performance_analysis
\* for one type.
update_slowest(slowest, qtype, time_ms) ==
    IF time_ms = NoNumber THEN slowest
    ELSE IF time_ms > GetOr(slowest, qtype, 0) THEN DictPut(slowest, qtype, time_ms)
    ELSE DictPut(slowest, qtype, GetOr(slowest, qtype, 0))

RECURSIVE update_performance_analysis(_, _, _, _)
\* _update_performance_analysis from the p-th type on.
update_performance_analysis(slowest, qtypes, perf_data, p) ==
    IF p > Len(qtypes) THEN slowest
    ELSE update_performance_analysis(
             update_slowest(slowest, qtypes[p], perf_data[qtypes[p]]),
             qtypes, perf_data, p + 1)

\* round(100 * a / b, 2), in hundredths.
Ratio100(a, b) == ((a * 10000 * 2) + b) \div (2 * b)

\* The success_rate of the summary, in hundredths of a percent.
success_rate(sr) == IF sr.total > 0 THEN Ratio100(sr.success, sr.total) ELSE 0

\* The "Query type summary" block of _generate_analytics_summary.
query_type_summary(dist) ==
    [q \in DOMAIN dist.query_counts |->
        [success_rate |-> success_rate(dist.success_rates[q])]]

\* The truthy max_time values max() is taken over.
TruthyMaxTimes(slowest) == {slowest[q] : q \in DOMAIN slowest} \ {0}

\* max() of an empty sequence raises ValueError.
SummaryRaises(slowest) == DOMAIN slowest # {} /\ TruthyMaxTimes(slowest) = {}

\* The "Performance summary" block: max_response_time_ms, NoNumber when the
\* block is skipped.
max_response_time_ms(slowest) ==
    IF DOMAIN slowest = {} THEN NoNumber
    ELSE CHOOSE m \in TruthyMaxTimes(slowest) :
            \A n \in TruthyMaxTimes(slowest) : n <= m

RecHighLatency == "High response times detected (>1000ms)."
RecDistribution == "Consider using geographically distributed DNS servers"
RecAnycast == "Consider using anycast DNS services"
RecLowSuccess == "Low success rates for query types"
RecAllWell == "DNS configuration appears to be performing well!"

\* if perf_summary.get("max_response_time_ms", 0) > 1000
HighLatencyRec(max_time) ==
    IF max_time # NoNumber /\ max_time > 1000 THEN <<RecHighLatency>> ELSE <<>>

\* if len(geo_summary.get("locations", [])) < 2 and
\* if geo_summary.get("anycast_servers", 0) == 0
GeographicRecs(geo) ==
    (IF Cardinality(geo.location_frequency) < 2 THEN <<RecDistribution>> ELSE <<>>)
      \o (IF Cardinality(geo.anycast_servers) = 0 THEN <<RecAnycast>> ELSE <<>>)

\* low_success_types
low_success_types(query_summary) ==
    {q \in DOMAIN query_summary : query_summary[q].success_rate < 9500}

\* if low_success_types
LowSuccessRec(query_summary) ==
    IF low_success_types(query_summary) # {} THEN <<RecLowSuccess>> ELSE <<>>

\* _add_analytics_recommendations
analytics_recommendations(max_time, geo, query_summary) ==
    LET recs == HighLatencyRec(max_time) \o GeographicRecs(geo)
                  \o LowSuccessRec(query_summary)
    IN  IF recs = <<>> THEN <<RecAllWell>> ELSE recs

\* _generate_analytics_summary(analytics_result, sample_count), when it
\* does not raise.
generate_analytics_summary(dist, geo, slowest, count) ==
    [total_samples |-> count,
     query_type_summary |-> query_type_summary(dist),
     locations |-> geo.location_frequency,
     anycast_servers |-> Cardinality(geo.anycast_servers),
     max_response_time_ms |-> max_response_time_ms(slowest),
     recommendations |->
        analytics_recommendations(max_response_time_ms(slowest), geo,
                                  query_type_summary(dist))]

\* No summary: the call has not returned one.
NoAnalyticsSummary ==
    [total_samples |-> NoNumber, query_type_summary |-> EmptyDict,
     locations |-> {}, anycast_servers |-> NoNumber,
     max_response_time_ms |-> NoNumber, recommendations |-> <<>>]

AnInit ==
    /\ query_types \in QueryTypeLists
    /\ duration \in 0..MaxDuration
    /\ now = 0
    /\ end_time = duration
    /\ sample_count = 0
    /\ query_distribution = NewQueryDistribution
    /\ geographic_analysis = NewGeographicAnalysis
    /\ slowest_queries = EmptyDict
    /\ analytics_summary = NoAnalyticsSummary
    /\ caller_got = "nothing"
    /\ apc = "test"

AnIdle ==
    /\ query_types = <<>>
    /\ duration = 0
    /\ now = 0
    /\ end_time = 0
    /\ sample_count = 0
    /\ query_distribution = NewQueryDistribution
    /\ geographic_analysis = NewGeographicAnalysis
    /\ slowest_queries = EmptyDict
    /\ analytics_summary = NoAnalyticsSummary
    /\ caller_got = "nothing"
    /\ apc = "idle"

anInputs == <<query_types, duration, end_time>>

\* while datetime.now() < end_time: the clock is read again, after end_time
\* was computed from an earlier reading.
LoopTest ==
    /\ apc = "test"
    /\ IF now < end_time
         THEN sample_count' = sample_count + 1 /\ apc' = "sample"
         ELSE sample_count' = sample_count /\ apc' = "summarise"
    /\ UNCHANGED <<now, query_distribution, geographic_analysis, slowest_queries,
                   analytics_summary, caller_got>>
    /\ UNCHANGED anInputs
    /\ UNCHANGED notAnVars

\* _collect_query_sample and _update_query_distribution.
SampleQueries ==
    /\ apc = "sample"
    /\ \E sample \in [SeqToSet(query_types) -> SampleOutcomes] :
         query_distribution' =
            update_query_distribution(query_distribution, query_types, sample)
    /\ apc' = "geo"
    /\ UNCHANGED <<now, sample_count, geographic_analysis, slowest_queries,
                   analytics_summary, caller_got>>
    /\ UNCHANGED anInputs
    /\ UNCHANGED notAnVars

\* _analyze_geographic_distribution and _update_geographic_analysis.
SampleGeography ==
    /\ apc = "geo"
    /\ \E geo_data \in GeoOutcomes :
         geographic_analysis' =
            update_geographic_analysis(geographic_analysis, geo_data)
    /\ apc' = "perf"
    /\ UNCHANGED <<now, sample_count, query_distribution, slowest_queries,
                   analytics_summary, caller_got>>
    /\ UNCHANGED anInputs
    /\ UNCHANGED notAnVars

\* _measure_query_performance and _update_performance_analysis, then the
\* nameserver analysis, which the summary does not read.
SamplePerformance ==
    /\ apc = "perf"
    /\ \E perf_data \in [SeqToSet(query_types) -> PerformanceOutcomes] :
         slowest_queries' =
            update_performance_analysis(slowest_queries, query_types, perf_data, 1)
    /\ apc' = "sleep"
    /\ UNCHANGED <<now, sample_count, query_distribution, geographic_analysis,
                   analytics_summary, caller_got>>
    /\ UNCHANGED anInputs
    /\ UNCHANGED notAnVars

\* time.sleep(interval_seconds): one interval goes by, or more.
Sleep ==
    /\ apc = "sleep"
    /\ \E ticks \in 1..2 : now' = now + ticks
    /\ apc' = "test"
    /\ UNCHANGED <<sample_count, query_distribution, geographic_analysis,
                   slowest_queries, analytics_summary, caller_got>>
    /\ UNCHANGED anInputs
    /\ UNCHANGED notAnVars

\* After the loop: the summary is generated and the result returned, or
\* max() raises ValueError out of the call.
Summarise ==
    /\ apc = "summarise"
    /\ IF SummaryRaises(slowest_queries)
         THEN /\ apc' = "raised"
              /\ UNCHANGED analytics_summary
         ELSE /\ apc' = "returned"
              /\ analytics_summary' =
                    generate_analytics_summary(query_distribution,
                        geographic_analysis, slowest_queries, sample_count)
    /\ UNCHANGED <<now, sample_count, query_distribution, geographic_analysis,
                   slowest_queries, caller_got>>
    /\ UNCHANGED anInputs
    /\ UNCHANGED notAnVars

\* KeyboardInterrupt is raised in the loop, during a round or during the
\* sleep.  Nothing in analyze_domain_queries catches it: the call is left
\* without the code after the loop being run.
KeyboardInterruptInLoop ==
    /\ apc \in {"test", "sample", "geo", "perf", "sleep"}
    /\ apc' = "interrupted"
    /\ UNCHANGED <<now, sample_count, query_distribution, geographic_analysis,
                   slowest_queries, analytics_summary, caller_got>>
    /\ UNCHANGED anInputs
    /\ UNCHANGED notAnVars

\* The query-analytics command around the call: it displays the summary of
\* the returned result, or prints that the collection was interrupted or
\* failed.
QueryAnalyticsCommand ==
    /\ apc \in {"returned", "raised", "interrupted"}
    /\ caller_got = "nothing"
    /\ caller_got' = CASE apc = "returned" -> "result"
                       [] apc = "raised" -> "failed message"
                       [] apc = "interrupted" -> "interrupted message"
    /\ UNCHANGED <<now, sample_count, query_distribution, geographic_analysis,
                   slowest_queries, analytics_summary, apc>>
    /\ UNCHANGED anInputs
    /\ UNCHANGED notAnVars

AnNext ==
    \/ LoopTest
    \/ SampleQueries
    \/ SampleGeography
    \/ SamplePerformance
    \/ Sleep
    \/ Summarise
    \/ QueryAnalyticsCommand

(***************************************************************************)
(*                    The command line: main() and cli()                   *)
(***************************************************************************)

\* The subcommands with, for each, whether some of its code runs outside a
\* try block, and which of Exception and KeyboardInterrupt the try block
\* around the rest catches (none: the command has no try block).
cli_commands ==
    [delegation |-> [unprotected |-> TRUE, catches |-> {}],
     propagation |-> [unprotected |-> TRUE, catches |-> {}],
     bulk |-> [unprotected |-> TRUE,
               catches |-> {"KeyboardInterrupt", "Exception"}],
     create_bulk_file |-> [unprotected |-> TRUE, catches |-> {}],
     query_analytics |-> [unprotected |-> TRUE,
                          catches |-> {"KeyboardInterrupt", "Exception"}],
     analytics_report |-> [unprotected |-> FALSE, catches |-> {"Exception"}],
     dns_insights |-> [unprotected |-> TRUE,
                       catches |-> {"KeyboardInterrupt", "Exception"}]]

\* How a stretch of a command's code ends: it runs to its end, it raises an
\* exception, or the user interrupts it.
CodeEndings == {"done", "Exception", "KeyboardInterrupt"}

\* The exit code of the process for the way cli() ended: main() exits with 1
\* on an exception or an interrupt that leaves cli(); a command that returns
\* ends the process with 0.
ExitCode(ending) == IF ending = "done" THEN 0 ELSE 1

\* How cli() was left: with the exception or interrupt no except clause of
\* the command caught, or by the command returning.
LeftWith(endings) ==
    IF endings[Len(endings)] \in {"Exception", "KeyboardInterrupt"}
      THEN endings[Len(endings)] ELSE "done"

CliInit ==
    /\ command \in DOMAIN cli_commands
    /\ verdict \in {"good", "bad"}
    /\ happened = <<>>
    /\ printed = <<>>
    /\ exit_code = NoNumber
    /\ cpc = IF cli_commands[command].unprotected THEN "unprotected" ELSE "try"

CliIdle ==
    /\ command = ""
    /\ verdict = ""
    /\ happened = <<>>
    /\ printed = <<>>
    /\ exit_code = NoNumber
    /\ cpc = "idle"

\* The code of the command that is not inside a try block.  What it raises
\* leaves cli(); when it ends, the command goes on to its try block or, if
\* it has none, returns after having printed the verdict.
RunUnprotected ==
    /\ cpc = "unprotected"
    /\ \E ending \in CodeEndings :
         /\ happened' = Append(happened, ending)
         /\ IF ending # "done"
              THEN cpc' = "left" /\ UNCHANGED printed
            ELSE IF cli_commands[command].catches # {}
              THEN cpc' = "try" /\ UNCHANGED printed
            ELSE cpc' = "left" /\ printed' = Append(printed, verdict)
    /\ UNCHANGED <<command, verdict, exit_code>>
    /\ UNCHANGED notCliVars

\* The try block of the command: what it raises is caught by the command's
\* except clauses, which print a message and let the command return, or it
\* leaves cli() when no clause catches it.
RunTry ==
    /\ cpc = "try"
    /\ \E ending \in CodeEndings :
         IF ending = "done"
           THEN /\ happened' = Append(happened, "done")
                /\ printed' = Append(printed, verdict)
         ELSE IF ending \in cli_commands[command].catches
           THEN /\ happened' = Append(happened, "caught " \o ending)
                /\ printed' = Append(printed, ending)
         ELSE /\ happened' = Append(happened, ending)
              /\ UNCHANGED printed
    /\ cpc' = "left"
    /\ UNCHANGED <<command, verdict, exit_code>>
    /\ UNCHANGED notCliVars

\* cli() is left and the process exits.
Exit ==
    /\ cpc = "left"
    /\ exit_code' = ExitCode(LeftWith(happened))
    /\ cpc' = "exited"
    /\ UNCHANGED <<command, verdict, happened, printed>>
    /\ UNCHANGED notCliVars

CliNext ==
    \/ RunUnprotected
    \/ RunTry
    \/ Exit

(***************************************************************************)
(*          load_domains_from_file and _parse_domains_from_text            *)
(***************************************************************************)

\* The most lines a domains file has.
MaxLines == 2

\* Position of the first occurrence of sep in str, 0 when there is none.
Find(sep, str) ==
    LET at == {k \in 1..(Len(str) - Len(sep) + 1) :
                  SubSeq(str, k, k + Len(sep) - 1) = sep}
    IN  IF at = {} THEN 0 ELSE CHOOSE k \in at : \A j \in at : k <= j

\* str.split(sep, 1)[0] and str.split(sep, 1)[1], for a sep that occurs.
BeforeFirst(str, sep) == SubSeq(str, 1, Find(sep, str) - 1)
AfterFirst(str, sep) == SubSeq(str, Find(sep, str) + Len(sep), Len(str))

RECURSIVE Split(_, _)
\* str.split(sep)
Split(str, sep) ==
    IF Find(sep, str) = 0 THEN <<str>>
    ELSE <<BeforeFirst(str, sep)>> \o Split(AfterFirst(str, sep), sep)

RECURSIVE Replace(_, _, _)
\* str.replace(old, new) for a one-character old.
Replace(str, old, new) ==
    IF str = "" THEN ""
    ELSE (IF SubSeq(str, 1, 1) = old THEN new ELSE SubSeq(str, 1, 1))
           \o Replace(SubSeq(str, 2, Len(str)), old, new)

\* The characters strip() and split() take for white space.
IsSpace(ch) == ch \in {" ", "\t", "\n", "\r"}

RECURSIVE LStrip(_)
LStrip(str) ==
    IF str # "" /\ IsSpace(SubSeq(str, 1, 1))
      THEN LStrip(SubSeq(str, 2, Len(str))) ELSE str

RECURSIVE RStrip(_)
RStrip(str) ==
    IF str # "" /\ IsSpace(SubSeq(str, Len(str), Len(str)))
      THEN RStrip(SubSeq(str, 1, Len(str) - 1)) ELSE str

\* str.strip()
Strip(str) == RStrip(LStrip(str))

\* Position of the first white space character of str, 0 when none.
FindSpace(str) ==
    LET at == {k \in 1..Len(str) : IsSpace(SubSeq(str, k, k))}
    IN  IF at = {} THEN 0 ELSE CHOOSE k \in at : \A j \in at : k <= j

RECURSIVE SplitWords(_)
\* str.split(): the words between runs of white space.
SplitWords(str) ==
    LET rest == LStrip(str)
    IN  IF rest = "" THEN <<>>
        ELSE IF FindSpace(rest) = 0 THEN <<rest>>
        ELSE <<SubSeq(rest, 1, FindSpace(rest) - 1)>>
               \o SplitWords(SubSeq(rest, FindSpace(rest), Len(rest)))

\* str.startswith(prefix) and str.endswith(suffix)
StartsWith(str, prefix) ==
    Len(str) >= Len(prefix) /\ SubSeq(str, 1, Len(prefix)) = prefix
EndsWith(str, suffix) ==
    Len(str) >= Len(suffix)
      /\ SubSeq(str, Len(str) - Len(suffix) + 1, Len(str)) = suffix

Digits == "0123456789"

\* str.isalnum(), for ASCII text.
IsAlnum(str) ==
    /\ str # ""
    /\ \A k \in 1..Len(str) :
          \/ Contains(SubSeq(str, k, k), LowerCase)
          \/ Contains(SubSeq(str, k, k), UpperCase)
          \/ Contains(SubSeq(str, k, k), Digits)

\* The body of the label loop of is_valid_domain.
is_valid_label(label) ==
    /\ label # ""
    /\ Len(label) <= 63
    /\ IsAlnum(Replace(Replace(label, "-", ""), "_", ""))
    /\ ~StartsWith(label, "-")
    /\ ~EndsWith(label, "-")

\* utils.is_valid_domain
is_valid_domain(domain) ==
    /\ domain # ""
    /\ Len(domain) <= 253
    /\ LET name == IF EndsWith(domain, ".")
                     THEN SubSeq(domain, 1, Len(domain) - 1) ELSE domain
           labels == Split(name, ".")
       IN  /\ Len(labels) >= 2
           /\ \A k \in DOMAIN labels : is_valid_label(labels[k])

\* utils.is_ipv6, on the texts tried: none of them is an IPv6 address but
\* the loopback address.
is_ipv6(ip) == ip = "::1"

\* The clean-up clean_domain_list does on one entry before validating it.
clean_domain(entry) ==
    LET lowered == Lower(Strip(entry))
        no_protocol == IF StartsWith(lowered, "http://") \/ StartsWith(lowered, "https://")
                         THEN AfterFirst(lowered, "://") ELSE lowered
        no_path == IF Contains("/", no_protocol)
                     THEN BeforeFirst(no_protocol, "/") ELSE no_protocol
    IN  IF Contains(":", no_path) /\ ~is_ipv6(no_path)
          THEN BeforeFirst(no_path, ":") ELSE no_path

\* The set clean_domain_list makes its result from: the cleaned entries
\* that are valid domains.
cleaned_domains(entries) ==
    {d \in {clean_domain(entries[k]) : k \in DOMAIN entries} : is_valid_domain(d)}

\* if line and not line.startswith('#'), on the stripped line.
keeps_line(line) == Strip(line) # "" /\ ~StartsWith(Strip(line), "#")

\* text.replace(',', '\n').replace(';', '\n').replace('\t', '\n').split('\n')
split_separators(txt) ==
    Split(Replace(Replace(Replace(txt, ",", "\n"), ";", "\n"), "\t", "\n"), "\n")

\* The lines a domains file is written from.
FileLines ==
    {"example.com", "", "# note", "#old.example,kept.example",
     "a.example B.example", "invalid;http://example.com/x", "  c.example:53\t::1"}

RECURSIVE JoinLines(_)
\* '\n'.join(lines)
JoinLines(the_lines) ==
    IF the_lines = <<>> THEN ""
    ELSE IF Len(the_lines) = 1 THEN the_lines[1]
    ELSE the_lines[1] \o "\n" \o JoinLines(Tail(the_lines))

\* The file contents tried.
FileTexts == {JoinLines(l) : l \in SeqsUpTo(FileLines, MaxLines) \ {<<>>}}

LoadInit ==
    /\ content \in FileTexts
    /\ lines = <<>>
    /\ line_index = 1
    /\ parsed = <<>>
    /\ loaded = <<>>
    /\ lpc = "read"

LoadIdle ==
    /\ content = ""
    /\ lines = <<>>
    /\ line_index = 1
    /\ parsed = <<>>
    /\ loaded = <<>>
    /\ lpc = "idle"

\* The file is read and its content cut at the separators.
ReadFile ==
    /\ lpc = "read"
    /\ lines' = split_separators(content)
    /\ lpc' = "lines"
    /\ UNCHANGED <<content, line_index, parsed, loaded>>
    /\ UNCHANGED notLoadVars

\* open() or read() raises: the except clause returns an empty list.
ReadFileFails ==
    /\ lpc = "read"
    /\ loaded' = <<>>
    /\ lpc' = "failed"
    /\ UNCHANGED <<content, lines, line_index, parsed>>
    /\ UNCHANGED notLoadVars

\* One turn of the for loop over the lines.
TakeLine ==
    /\ lpc = "lines"
    /\ line_index <= Len(lines)
    /\ parsed' = IF keeps_line(lines[line_index])
                   THEN parsed \o SplitWords(Strip(lines[line_index]))
                   ELSE parsed
    /\ line_index' = line_index + 1
    /\ UNCHANGED <<content, lines, loaded, lpc>>
    /\ UNCHANGED notLoadVars

\* return clean_domain_list(domains): list(set(cleaned)), in the order the
\* set iterates.
CleanAndReturn ==
    /\ lpc = "lines"
    /\ line_index > Len(lines)
    /\ loaded' \in ListsOf(cleaned_domains(parsed))
    /\ lpc' = "returned"
    /\ UNCHANGED <<content, lines, line_index, parsed>>
    /\ UNCHANGED notLoadVars

LoadNext ==
    \/ ReadFile
    \/ ReadFileFails
    \/ TakeLine
    \/ CleanAndReturn

(***************************************************************************)
(*           check_provider_settings and _check_cloudflare_api             *)
(***************************************************************************)

\* dict.update(other)
DictUpdate(d, other) ==
    [k \in DOMAIN d \cup DOMAIN other |-> IF k \in DOMAIN other THEN other[k] ELSE d[k]]

\* The provider arguments tried; "" stands for None.
SettingsProviders ==
    {"", "Cloudflare", "AWS Route 53", "Google Cloud DNS", "Azure DNS",
     "DigitalOcean", "GoDaddy"}

\* What detect_dns_provider may report as primary_provider.
DetectedPrimaries == {"Cloudflare", "DigitalOcean", "Unknown"}

\* The api_credentials arguments tried; None and {} are both falsy and are
\* the empty dict here.
CredentialDicts ==
    {EmptyDict, [api_token |-> "token"], [api_token |-> ""],
     [access_key |-> "key"]}

\* The providers whose integration is a placeholder, with its message.
placeholder_errors ==
    [p \in {"AWS Route 53", "Google Cloud DNS", "Azure DNS", "DigitalOcean"} |->
        p \o " API integration not yet implemented"]

\* No request has been made.
NoResponse == [kind |-> "none"]

\* requests.get raised (timeout, connection error).
RequestRaises == [kind |-> "raises", error |-> "timed out"]

\* A response whose body is not JSON: response.json() raises.  The status
\* code is held as the text the error message shows.
NotJson(status) == [kind |-> "response", status_code |-> status, json |-> FALSE]

\* A response with a JSON body.
Json(status, body) ==
    [kind |-> "response", status_code |-> status, json |-> TRUE, body |-> body]

\* The zones a zones response may list.
Zones ==
    {[id |-> "z1"],
     [id |-> "z1", status |-> "active", plan |-> [name |-> "Free"],
      development_mode |-> TRUE, security_level |-> "high", ssl |-> "full",
      ssl_universal_ssl_enabled |-> TRUE],
     [status |-> "active"]}

\* What the zones request may give.
ZonesResponses ==
    {RequestRaises, NotJson("200"), NotJson("403"), Json("500", EmptyDict),
     Json("200", EmptyDict),
     Json("200", [success |-> FALSE, result |-> <<>>]),
     Json("200", [success |-> TRUE, result |-> <<>>])}
    \cup {Json("200", [success |-> TRUE, result |-> <<z>>]) : z \in Zones}

\* What the dns_records request may give.
RecordsResponses ==
    {RequestRaises, NotJson("200"), NotJson("403"), Json("500", EmptyDict),
     Json("200", EmptyDict),
     Json("200", [success |-> FALSE, result |-> <<>>]),
     Json("200", [success |-> TRUE, result |-> <<>>]),
     Json("200", [success |-> TRUE, result |-> <<[type |-> "A", name |-> "example.com"]>>])}

\* The result dict check_provider_settings starts from.
NewSettingsResult(provider) ==
    [provider |-> provider, records |-> <<>>, settings |-> EmptyDict,
     errors |-> <<>>, api_available |-> FALSE]

\* The settings dict built from the first zone of the response.
zone_settings(zone_info) ==
    [status |-> GetOr(zone_info, "status", "unknown"),
     plan |-> GetOr(GetOr(zone_info, "plan", EmptyDict), "name", "unknown"),
     development_mode |-> GetOr(zone_info, "development_mode", FALSE),
     security_level |-> GetOr(zone_info, "security_level", "unknown"),
     ssl |-> GetOr(zone_info, "ssl", "unknown"),
     ssl_universal_ssl_enabled |-> GetOr(zone_info, "ssl_universal_ssl_enabled", FALSE)]

\* The except clause of _check_cloudflare_api.
cloudflare_exception(result, error) ==
    DictPut(result, "errors", <<"Error accessing Cloudflare API: " \o error>>)

\* _check_cloudflare_api from the zones request to the dns_records request:
\* the local result, and whether the second request is made.
after_zones(result, r) ==
    IF r.kind = "raises"
      THEN [result |-> cloudflare_exception(result, r.error), goes_on |-> FALSE]
    ELSE IF r.status_code # "200"
      THEN [result |-> DictPut(result, "errors",
                               <<"Cloudflare API error: " \o r.status_code>>),
            goes_on |-> FALSE]
    ELSE IF ~r.json
      THEN [result |-> cloudflare_exception(result, "Expecting value"),
            goes_on |-> FALSE]
    ELSE IF "success" \notin DOMAIN r.body
      THEN [result |-> cloudflare_exception(result, "'success'"),
            goes_on |-> FALSE]
    ELSE IF r.body.success /\ r.body.result # <<>>
      THEN IF "id" \notin DOMAIN r.body.result[1]
             THEN [result |-> cloudflare_exception(result, "'id'"),
                   goes_on |-> FALSE]
             ELSE [result |-> DictPut(result, "settings",
                                      zone_settings(r.body.result[1])),
                   goes_on |-> TRUE]
    ELSE [result |-> result, goes_on |-> FALSE]

\* _check_cloudflare_api from the dns_records request to its return.
after_records(result, r) ==
    IF r.kind = "raises"
      THEN cloudflare_exception(result, r.error)
    ELSE IF r.status_code # "200"
      THEN result
    ELSE IF ~r.json
      THEN cloudflare_exception(result, "Expecting value")
    ELSE IF "success" \notin DOMAIN r.body
      THEN cloudflare_exception(result, "'success'")
    ELSE IF r.body.success
      THEN DictPut(result, "records", r.body.result)
    ELSE result

SettingsInit ==
    /\ settings_provider \in SettingsProviders
    /\ api_credentials \in CredentialDicts
    /\ settings_result = EmptyDict
    /\ cloudflare_result = EmptyDict
    /\ zones_response = NoResponse
    /\ records_response = NoResponse
    /\ spc = "start"

SettingsIdle ==
    /\ settings_provider = ""
    /\ api_credentials = EmptyDict
    /\ settings_result = EmptyDict
    /\ cloudflare_result = EmptyDict
    /\ zones_response = NoResponse
    /\ records_response = NoResponse
    /\ spc = "idle"

\* The provider is detected when none was given, and the provider's
\* integration is chosen.
CheckProviderSettings ==
    /\ spc = "start"
    /\ \E provider \in (IF settings_provider = "" THEN DetectedPrimaries
                                                  ELSE {settings_provider}) :
          IF /\ provider = "Cloudflare"
             /\ api_credentials # EmptyDict
             /\ GetOr(api_credentials, "api_token", "") # ""
            THEN /\ settings_result' = NewSettingsResult(provider)
                 /\ cloudflare_result' = [api_available |-> TRUE]
                 /\ spc' = "zones"
          ELSE IF provider \in DOMAIN placeholder_errors /\ api_credentials # EmptyDict
            THEN /\ settings_result' =
                       DictUpdate(NewSettingsResult(provider),
                                  [api_available |-> FALSE,
                                   errors |-> <<placeholder_errors[provider]>>])
                 /\ spc' = "returned"
                 /\ UNCHANGED cloudflare_result
          ELSE /\ settings_result' =
                     [NewSettingsResult(provider) EXCEPT !.errors =
                         <<"No API integration available for " \o provider
                             \o " or credentials not provided">>]
               /\ spc' = "returned"
               /\ UNCHANGED cloudflare_result
    /\ UNCHANGED <<settings_provider, api_credentials, zones_response, records_response>>
    /\ UNCHANGED notSettingsVars

\* The zones request and what _check_cloudflare_api does with its response.
ZonesRequest ==
    /\ spc = "zones"
    /\ \E r \in ZonesResponses :
          /\ zones_response' = r
          /\ cloudflare_result' = after_zones(cloudflare_result, r).result
          /\ IF after_zones(cloudflare_result, r).goes_on
               THEN /\ spc' = "records"
                    /\ UNCHANGED settings_result
               ELSE /\ spc' = "returned"
                    /\ settings_result' = DictUpdate(settings_result, cloudflare_result')
    /\ UNCHANGED <<settings_provider, api_credentials, records_response>>
    /\ UNCHANGED notSettingsVars

\* The dns_records request, the return of _check_cloudflare_api and the
\* result.update of check_provider_settings.
RecordsRequest ==
    /\ spc = "records"
    /\ \E r \in RecordsResponses :
          /\ records_response' = r
          /\ cloudflare_result' = after_records(cloudflare_result, r)
          /\ settings_result' = DictUpdate(settings_result, cloudflare_result')
    /\ spc' = "returned"
    /\ UNCHANGED <<settings_provider, api_credentials, zones_response>>
    /\ UNCHANGED notSettingsVars

SettingsNext ==
    \/ CheckProviderSettings
    \/ ZonesRequest
    \/ RecordsRequest

(***************************************************************************)
(*        BulkDomainProcessor: process_domains called repeatedly           *)
(***************************************************************************)

\* The most process_domains calls made on one processor.
MaxRuns == 2

\* What handling one finished future meets: the status of the domain's
\* result, and whether the progress callback returns or raises.
RunOutcomes ==
    { [status |-> "success", callback |-> "returns"],
      [status |-> "failed", callback |-> "returns"],
      [status |-> "success", callback |-> "raises"] }

\* self.progress as __init__ leaves it: it has no errors list yet.
NoErrorsList == 0

\* The summary dict of _generate_summary: results and errors are the list
\* objects self.results and self.progress["errors"] are bound to.
summary_of(counters, results_list) ==
    [total_domains |-> counters.total, successful |-> counters.completed,
     failed |-> counters.failed, results |-> results_list,
     errors |-> counters.errors]

\* self.results is emptied in place, the progress dict is made anew.
reset_ClearsInPlace(all_lists, results_list, n) ==
    [lists |-> Append([all_lists EXCEPT ![results_list] = <<>>], <<>>),
     results |-> results_list,
     progress |-> [total |-> n, completed |-> 0, failed |-> 0,
                   errors |-> Len(all_lists) + 1]]

\* self.results = [] and self.progress = {..., "errors": []}: the names are
\* bound to new objects.
reset(all_lists, results_list, n) ==
    [lists |-> all_lists \o << <<>>, <<>> >>,
     results |-> Len(all_lists) + 1,
     progress |-> [total |-> n, completed |-> 0, failed |-> 0,
                   errors |-> Len(all_lists) + 2]]

RunsInit ==
    /\ lists = << <<>> >>
    /\ self_results = 1
    /\ self_progress = [total |-> 0, completed |-> 0, failed |-> 0,
                        errors |-> NoErrorsList]
    /\ returned_summaries = <<>>
    /\ handled = 0
    /\ rpc = "ready"

RunsIdle ==
    /\ lists = << <<>> >>
    /\ self_results = 1
    /\ self_progress = [total |-> 0, completed |-> 0, failed |-> 0,
                        errors |-> NoErrorsList]
    /\ returned_summaries = <<>>
    /\ handled = 0
    /\ rpc = "idle"

\* process_domains is called with n domains.
StartRun ==
    /\ rpc = "ready"
    /\ Len(returned_summaries) < MaxRuns
    /\ \E n \in 0..MaxDomains :
          /\ lists' = reset(lists, self_results, n).lists
          /\ self_results' = reset(lists, self_results, n).results
          /\ self_progress' = reset(lists, self_results, n).progress
    /\ handled' = 0
    /\ rpc' = "running"
    /\ UNCHANGED returned_summaries
    /\ UNCHANGED notRunsVars

\* One turn of the as_completed loop: the result is appended and counted,
\* the callback is called; if it raises the domain is counted as failed too.
HandleFuture ==
    /\ rpc = "running"
    /\ handled < self_progress.total
    /\ \E o \in RunOutcomes :
          /\ lists' = [lists EXCEPT
                ![self_results] = Append(@,
                    [domain |-> handled + 1,
                     timestamp |-> Len(returned_summaries) + 1,
                     status |-> o.status]),
                ![self_progress.errors] =
                    IF o.callback = "raises"
                      THEN Append(@, [domain |-> handled + 1, error |-> "callback error"])
                      ELSE @]
          /\ self_progress' = [self_progress EXCEPT
                !.completed = @ + 1,
                !.failed = IF o.callback = "raises" THEN @ + 1 ELSE @]
    /\ handled' = handled + 1
    /\ UNCHANGED <<self_results, returned_summaries, rpc>>
    /\ UNCHANGED notRunsVars

\* Every future was handled: the summary is generated and returned.
FinishRun ==
    /\ rpc = "running"
    /\ handled = self_progress.total
    /\ returned_summaries' =
          Append(returned_summaries, summary_of(self_progress, self_results))
    /\ rpc' = "ready"
    /\ UNCHANGED <<lists, self_results, self_progress, handled>>
    /\ UNCHANGED notRunsVars

RunsNext ==
    \/ StartRun
    \/ HandleFuture
    \/ FinishRun

(***************************************************************************)
(*                           Specifications                                *)
(***************************************************************************)

PropNext ==
    \/ \E i \in Roster : RunCheckServer(i)
    \/ \E i \in Roster : CollectServer(i)
    \/ AnalyzeResults

BulkNext ==
    \/ Submit
    \/ SubmitDone
    \/ WorkerStart
    \/ \E i \in 1..Len(task) : RunNextCheck(i)
    \/ \E i \in 1..Len(task) : ReturnDomainResult(i)
    \/ \E i \in 1..Len(task) : CollectResult(i)
    \/ CallbackReturns
    \/ CallbackRaises
    \/ PrintProgress
    \/ ReturnSummary

InitProp == PropInit /\ BulkIdle /\ DelegIdle /\ ProvIdle /\ AnIdle /\ CliIdle /\ LoadIdle /\ SettingsIdle /\ RunsIdle

InitBulk == BulkInit /\ PropIdle /\ DelegIdle /\ ProvIdle /\ AnIdle /\ CliIdle /\ LoadIdle /\ SettingsIdle /\ RunsIdle

InitDeleg == DelegInit /\ PropIdle /\ BulkIdle /\ ProvIdle /\ AnIdle /\ CliIdle /\ LoadIdle /\ SettingsIdle /\ RunsIdle

InitProv == ProvInit /\ PropIdle /\ BulkIdle /\ DelegIdle /\ AnIdle /\ CliIdle /\ LoadIdle /\ SettingsIdle /\ RunsIdle

InitAn == AnInit /\ PropIdle /\ BulkIdle /\ DelegIdle /\ ProvIdle /\ CliIdle /\ LoadIdle /\ SettingsIdle /\ RunsIdle

InitCli == CliInit /\ PropIdle /\ BulkIdle /\ DelegIdle /\ ProvIdle /\ AnIdle /\ LoadIdle /\ SettingsIdle /\ RunsIdle

InitLoad == LoadInit /\ PropIdle /\ BulkIdle /\ DelegIdle /\ ProvIdle /\ AnIdle /\ CliIdle /\ SettingsIdle /\ RunsIdle

InitSettings == SettingsInit /\ PropIdle /\ BulkIdle /\ DelegIdle /\ ProvIdle /\ AnIdle /\ CliIdle /\ LoadIdle /\ RunsIdle

InitRuns == RunsInit /\ PropIdle /\ BulkIdle /\ DelegIdle /\ ProvIdle /\ AnIdle /\ CliIdle /\ LoadIdle /\ SettingsIdle

Init == InitProp \/ InitBulk \/ InitDeleg \/ InitProv \/ InitAn \/ InitCli \/ InitLoad \/ InitSettings \/ InitRuns

Next == PropNext \/ BulkNext \/ DelegNext \/ ProvNext \/ AnNext \/ CliNext \/ LoadNext \/ SettingsNext \/ RunsNext
                \/ KeyboardInterruptInLoop
                \/ KeyboardInterruptInBatch \/ ShutdownAfterInterrupt

\* One call of either operation.
Spec == Init /\ [][Next]_vars

\* One check_propagation call.
SpecProp == InitProp /\ [][PropNext]_vars

\* One process_domains call.
SpecBulk == InitBulk /\ [][BulkNext]_vars

\* One process_domains call that the user may interrupt.
SpecBulkInterrupt ==
    InitBulk /\ [][BulkNext \/ KeyboardInterruptInBatch \/ ShutdownAfterInterrupt]_vars

\* One check_delegation call.
SpecDeleg == InitDeleg /\ [][DelegNext]_vars

\* One detect_dns_provider call.
SpecProv == InitProv /\ [][ProvNext]_vars

\* One analyze_domain_queries call that nobody interrupts, under the
\* query-analytics command.
SpecAn == InitAn /\ [][AnNext]_vars

\* One analyze_domain_queries call that the user may interrupt.
SpecAnInterrupt == InitAn /\ [][AnNext \/ KeyboardInterruptInLoop]_vars

\* One analyze_domain_queries call that nobody interrupts and in which every
\* query, and the sleep, comes to its end.
SpecAnFair == SpecAn /\ WF_vars(AnNext)

\* One run of the command line.
SpecCli == InitCli /\ [][CliNext]_vars

\* One load_domains_from_file call.
SpecLoad == InitLoad /\ [][LoadNext]_vars

\* One check_provider_settings call.
SpecSettings == InitSettings /\ [][SettingsNext]_vars

\* process_domains called up to MaxRuns times on one processor.
SpecRuns == InitRuns /\ [][RunsNext]_vars

\* One process_domains call in which every thread that can take a step
\* eventually does (checks terminate, the pool schedules its threads).
SpecBulkFair == SpecBulk /\ WF_vars(BulkNext)

(***************************************************************************)
(*                     Properties of check_propagation                     *)
(***************************************************************************)

\* Roster servers whose query ended with status success.
SuccessfulServers == {i \in Roster : future[i].ret.status = "success"}

\* The distinct value-sets the successful outcomes carry.
SuccessValueSets == {SeqToSet(future[i].ret.values) : i \in SuccessfulServers}

\* C1: when check_propagation has returned, the consistency flag is false
\* exactly when the outcomes with status success carry more than one
\* distinct value-set (order and duplicates ignored); unsuccessful outcomes
\* do not count and with no or one successful outcome the flag is true.
C1_ConsistencyIffOneValueSet ==
    ppc = "returned" =>
        /\ (consistency = FALSE) <=> (Cardinality(SuccessValueSets) > 1)
        /\ Cardinality(SuccessfulServers) <= 1 => consistency = TRUE

\* Three successful answers, two of them the same set in a different order
\* and with a different third: inconsistent.  (Also reached: an error next
\* to equal sets.)
C1_Witness ==
    /\ ppc = "returned"
    /\ consistency = FALSE
    /\ \E i, j, k \in Roster :
          /\ future[i].ret.values = <<"192.0.2.1", "192.0.2.2">>
          /\ future[j].ret.values = <<"192.0.2.2", "192.0.2.1">>
          /\ future[k].ret.values = <<"192.0.2.1", "192.0.2.1">>

\* Whether some successful outcome's value list holds the string v.
SomeSuccessContains(v) ==
    \E i \in SuccessfulServers : v \in SeqToSet(future[i].ret.values)

\* C2: when check_propagation has returned, propagated is false exactly
\* when no outcome has status success, or an expected value was supplied
\* and no successful outcome's value list contains that exact string.
C2_PropagatedIffExpectedSeen ==
    ppc = "returned" =>
        ((propagated = FALSE) <=>
            \/ SuccessfulServers = {}
            \/ Truthy(expected_value) /\ ~SomeSuccessContains(expected_value))

\* An expected value that one successful outcome contains and another
\* successful outcome does not: propagated.
C2_Witness ==
    /\ ppc = "returned"
    /\ propagated = TRUE
    /\ Truthy(expected_value)
    /\ \E i, j \in SuccessfulServers :
          /\ expected_value \in SeqToSet(future[i].ret.values)
          /\ expected_value \notin SeqToSet(future[j].ret.values)

\* C11: when check_propagation has returned, the servers mapping has
\* exactly one entry for each roster server, which is that server's own
\* outcome; a failed query is an entry with status nxdomain or error and no
\* values, and it stops no other server's query from running.
C11_OneOutcomePerServer ==
    ppc = "returned" =>
        /\ Len(servers) = Len(dns_servers)
        /\ \A i \in Roster :
              /\ Cardinality({k \in 1..Len(servers) :
                    servers[k].name = dns_servers[i].name}) = 1
              /\ \E k \in 1..Len(servers) : servers[k] = future[i].ret
              /\ future[i].ret.status \in {"success", "nxdomain", "error"}
              /\ future[i].ret.status # "success" => future[i].ret.values = <<>>

\* A returned call in which one query failed with an error, one with
\* NXDOMAIN, and a third succeeded.
C11_Witness ==
    /\ ppc = "returned"
    /\ Len(servers) = Len(dns_servers)
    /\ \E i, j, k \in Roster :
          /\ future[i].ret.status = "error"
          /\ future[j].ret.status = "nxdomain"
          /\ future[k].ret.status = "success"

\* Queries that ended by the resolver's timeout.
TimedOut == {i \in Roster : future[i].ret.error = "The DNS operation timed out."}

\* C12: a query that timed out has an outcome with status timeout (which is
\* not the status of other errors) and no values, and once a query has its
\* outcome it is not issued again.
C12_TimeoutHasOwnStatus ==
    /\ [](\A i \in TimedOut :
            /\ future[i].ret.status = "timeout"
            /\ future[i].ret.values = <<>>)
    /\ [][\A i \in Roster :
            future[i].state # "pending" => future'[i].ret = future[i].ret]_vars

\* The outcomes listed by roster position instead of by completion.
OutcomesInRosterOrder == [i \in Roster |-> future[i].ret]

\* C13: the verdicts and the server-to-outcome mapping of a returned call
\* are those of the servers' outcomes taken in roster order, whatever the
\* order in which the queries completed.
C13_VerdictsIgnoreCompletionOrder ==
    ppc = "returned" =>
        /\ consistency = AnalyzeConsistency(OutcomesInRosterOrder)
        /\ propagated = AnalyzePropagated(OutcomesInRosterOrder, expected_value)
        /\ SeqToSet(servers) = SeqToSet(OutcomesInRosterOrder)

\* A returned call whose queries completed in the reverse of the roster
\* order, with differing answers and an expected value seen by one server.
C13_Witness ==
    /\ ppc = "returned"
    /\ \A k \in 1..Len(servers) :
          servers[k].name = dns_servers[Len(servers) + 1 - k].name
    /\ consistency = FALSE
    /\ propagated = TRUE
    /\ Truthy(expected_value)
    /\ \E i \in Roster : future[i].ret.status = "error"

(***************************************************************************)
(*                      Properties of process_domains                      *)
(***************************************************************************)

Futures == 1..Len(task)

\* Positions of a sequence whose entry has the given status.
WithStatus(res, st) == {k \in 1..Len(res) : res[k].status = st}

\* self.results holds one entry per element of the input list.
OneResultPerDomain ==
    /\ Len(results) = Len(domains)
    /\ \A d \in SeqToSet(domains) :
          Cardinality({k \in 1..Len(results) : results[k].domain = d})
            = Cardinality({i \in 1..Len(domains) : domains[i] = d})

\* C3: when process_domains has returned for N domains,
\* completed + failed = N and the results list has N entries, one per
\* input domain.
C3_BatchComplete ==
    bpc = "returned" =>
        /\ progress.completed + progress.failed = Len(domains)
        /\ OneResultPerDomain

\* C4: in every state of a run completed + failed <= total, and neither
\* counter ever decreases.
C4_CountersBounded ==
    /\ [](progress.completed + progress.failed <= progress.total)
    /\ [][/\ progress'.completed >= progress.completed
          /\ progress'.failed >= progress.failed]_vars

\* Positions of the checks list whose call raised while future i ran.
RaisedIn(i, kinds) == {p \in task[i].raised : checks[p] \in kinds}

InErrors(result, text) ==
    \E k \in 1..Len(result.errors) : result.errors[k] = text

\* Future i's result is in self.results.
Reported(i) == \E k \in 1..Len(results) : results[k] = task[i].result

\* C5 as stated: after the run, a domain one of whose checks raised has a
\* result with status failed and the exception text in its errors, and every
\* other domain has a result with status success.
C5_AnyRaisingCheckFailsDomain ==
    bpc = "returned" =>
        \A i \in Futures :
            /\ Reported(i)
            /\ IF task[i].raised # {}
                 THEN /\ task[i].result.status = "failed"
                      /\ \E p \in task[i].raised :
                            InErrors(task[i].result, ExcText(checks[p]))
                 ELSE task[i].result.status = "success"

\* C5 amended: after the run, a domain one of whose checks other than
\* reverse-dns raised has a result with status failed and the exception text
\* in its errors; every other domain has a result with status success (an
\* exception inside the reverse-dns check is kept in that check's entry).
C5_RaisingValidatorCheckFailsDomain ==
    bpc = "returned" =>
        \A i \in Futures :
            /\ Reported(i)
            /\ IF RaisedIn(i, ValidatorChecks) # {}
                 THEN /\ task[i].result.status = "failed"
                      /\ \E p \in RaisedIn(i, ValidatorChecks) :
                            InErrors(task[i].result, ExcText(checks[p]))
                 ELSE task[i].result.status = "success"

\* A finished batch in which one domain failed on a raising check and
\* another domain succeeded.
C5_Witness ==
    /\ bpc = "returned"
    /\ \E i, j \in Futures :
          /\ RaisedIn(i, ValidatorChecks) # {}
          /\ task[i].result.status = "failed"
          /\ task[j].raised = {}
          /\ task[j].result.status = "success"

\* C6: _process_single_domain is never started twice for an element of the
\* input list, every future that left the queue was started once, and when
\* process_domains returns it was started exactly once for each element.
C6_StartedExactlyOnce ==
    /\ \A i \in Futures :
          /\ task[i].started <= 1
          /\ task[i].state # "queued" => task[i].started = 1
    /\ bpc = "returned" =>
          /\ Len(task) = Len(domains)
          /\ \A i \in Futures : task[i].started = 1

\* More domains than workers, all started once, the call has returned.
C6_Witness ==
    /\ bpc = "returned"
    /\ Len(domains) > max_workers
    /\ \A i \in Futures : task[i].started = 1

\* C7: process_domains eventually returns, whatever the number of failing
\* domains and workers.
C7_EventuallyReturns == <>(bpc = "returned")

\* A returned run with a single worker in which the first domain failed and
\* a later one was still completed.
C7_Witness ==
    /\ bpc = "returned"
    /\ max_workers = 1
    /\ Len(domains) >= 2
    /\ task[1].result.status = "failed"
    /\ \E i \in Futures : i > 1 /\ task[i].result.status = "success"

\* C8: in the returned summary, successful is the number of results with
\* status success, failed the number with status failed, and their sum is
\* total_domains.
C8_SummaryCountsStatuses ==
    bpc = "returned" =>
        /\ summary.successful = Cardinality(WithStatus(summary.results, "success"))
        /\ summary.failed = Cardinality(WithStatus(summary.results, "failed"))
        /\ summary.successful + summary.failed = summary.total_domains

\* Positions of the unknown check kinds future i's loop has gone through.
UnknownSeen(i) ==
    {p \in 1..Len(checks) :
        /\ checks[p] \notin KnownChecks
        /\ \A q \in RaisedIn(i, ValidatorChecks) : p < q}

\* C9: each unknown check kind a domain went through left exactly one error
\* string naming it; the status is success unless a validator check raised;
\* and the checks after the unknown one ran (each left its entry or, if it
\* raised, its exception text).
C9_UnknownCheckRecorded ==
    \A i \in Futures :
        task[i].state = "done" =>
            /\ \A p \in UnknownSeen(i) :
                  Cardinality({k \in 1..Len(task[i].result.errors) :
                      task[i].result.errors[k] = "Unknown check type: " \o checks[p]}) = 1
            /\ RaisedIn(i, ValidatorChecks) = {} =>
                  /\ task[i].result.status = "success"
                  /\ UnknownSeen(i) = {p \in 1..Len(checks) : checks[p] \notin KnownChecks}
            /\ \A p \in UnknownSeen(i) : \A q \in (p + 1)..Len(checks) :
                  /\ checks[q] \in KnownChecks
                  /\ \A r \in RaisedIn(i, ValidatorChecks) : q <= r
                  => \/ \E e \in task[i].result.checks : e[1] = checks[q]
                     \/ InErrors(task[i].result, ExcText(checks[q]))

\* A finished domain with an unknown check: one error, status success, and
\* the known check after it has its entry.
C9_Witness ==
    \E i \in Futures :
        /\ task[i].state = "done"
        /\ checks = <<"whois", "provider">>
        /\ task[i].result.errors = <<"Unknown check type: whois">>
        /\ task[i].result.status = "success"
        /\ task[i].result.checks = {<<"provider", "result">>}

\* Calls of the callback made for future i.
CallsFor(i) == {k \in 1..Len(callback_log) : callback_log[k].future = i}

\* C10: with a progress callback, each call is made for a domain already
\* counted (the progress it sees counts that domain and names it), no
\* domain gets two calls, and when process_domains returns every domain,
\* failed or not, got exactly one: N calls.
C10_CallbackOncePerDomain ==
    progress_callback =>
        /\ \A k \in 1..Len(callback_log) :
              /\ callback_log[k].future \in yielded
              /\ callback_log[k].seen.completed = k
              /\ callback_log[k].seen.current_domain
                    = domains[callback_log[k].future]
        /\ \A i \in Futures : Cardinality(CallsFor(i)) <= 1
        /\ bpc = "returned" =>
              /\ Len(callback_log) = Len(domains)
              /\ \A i \in 1..Len(domains) : Cardinality(CallsFor(i)) = 1

\* A returned run with a callback, a failed and a successful domain.
C10_Witness ==
    /\ bpc = "returned"
    /\ progress_callback
    /\ Len(callback_log) = Len(domains)
    /\ \E i, j \in Futures :
          /\ task[i].result.status = "failed"
          /\ task[j].result.status = "success"

(***************************************************************************)
(*                    Properties of check_delegation                       *)
(***************************************************************************)

\* What the resolution of the domain itself did in this call.
DomainOutcome == deleg_calls[1].outcome

\* The resolution of the parent was attempted in this call.
ParentAttempted ==
    /\ Len(deleg_calls) = 2
    /\ deleg_calls[2].name = parent_domain(deleg_domain)

\* C14: the returned delegation_valid is true exactly when the returned
\* authoritative_servers list is non-empty, whatever the resolutions of the
\* domain and of its parent did (records, empty answer, name does not
\* exist, other failure); the list holds the records the domain's
\* resolution answered, so two NS records give a list of length 2 and a
\* valid result.
C14_ValidIffAuthoritative ==
    dpc = "returned" =>
        /\ deleg_result.delegation_valid
              <=> (deleg_result.authoritative_servers # <<>>)
        /\ deleg_result.authoritative_servers = DomainOutcome.records
        /\ DomainOutcome.records = <<"ns1.example.", "ns2.example.">>
              => /\ Len(deleg_result.authoritative_servers) = 2
                 /\ deleg_result.delegation_valid

C14_Witness ==
    /\ dpc = "returned"
    /\ deleg_result.authoritative_servers = <<"ns1.example.", "ns2.example.">>
    /\ deleg_result.delegation_valid
    /\ ParentAttempted
    /\ deleg_calls[2].outcome.kind = "answer"
    /\ deleg_calls[2].outcome.records = <<>>

\* C15: when the NS resolution of the domain reports that the name does not
\* exist, check_delegation returns a result whose delegation_valid is false
\* and whose errors list holds exactly one entry, the "does not exist"
\* message for the domain.
C15_NxdomainIsSoleError ==
    (dpc # "resolve" /\ DomainOutcome.kind = "NXDOMAIN") =>
        /\ dpc = "returned"
        /\ ~deleg_result.delegation_valid
        /\ deleg_result.errors =
              <<"Domain " \o deleg_domain \o " does not exist">>

C15_Witness ==
    /\ dpc = "returned"
    /\ DomainOutcome.kind = "NXDOMAIN"
    /\ deleg_domain = "www.example.com"
    /\ deleg_result.errors = <<"Domain www.example.com does not exist">>

\* The resolution of the domain answered and that of the parent failed.
ParentFailed ==
    /\ dpc = "returned"
    /\ DomainOutcome.kind = "answer"
    /\ ParentAttempted
    /\ deleg_calls[2].outcome.kind # "answer"

\* The result of the same call had the parent's resolution returned o.
HadParentReturned(o) ==
    VerifyStep(ParentNsStep(
        DomainNsStep(NewDelegResult, deleg_domain, DomainOutcome), o))

\* C16: when the domain's own NS resolution succeeds and the parent's
\* fails, the failure adds nothing to errors (the only possible entry is
\* the one about the domain's own servers), parent_servers stays empty, and
\* delegation_valid and authoritative_servers are what they would be had
\* the parent resolved.
C16_ParentFailureIsWarning ==
    ParentFailed =>
        /\ deleg_result.parent_servers = <<>>
        /\ deleg_result.errors =
              IF DomainOutcome.records = <<>>
                THEN <<"No authoritative servers found">> ELSE <<>>
        /\ \A o \in NsOutcomes :
              o.kind = "answer" =>
                /\ HadParentReturned(o).delegation_valid
                      = deleg_result.delegation_valid
                /\ HadParentReturned(o).authoritative_servers
                      = deleg_result.authoritative_servers
                /\ HadParentReturned(o).errors = deleg_result.errors

C16_Witness ==
    /\ ParentFailed
    /\ deleg_calls[2].outcome.kind = "NXDOMAIN"
    /\ deleg_result.delegation_valid
    /\ deleg_result.errors = <<>>

\* C17: every call on a domain that has a parent (the input without its
\* leftmost label, when that is non-empty) attempts the NS resolution of
\* the parent, whether the domain's own resolution succeeded or failed, and
\* parent_servers holds the parent's records whenever the parent resolved.
C17_ParentAlwaysAttempted ==
    (dpc = "returned" /\ parent_domain(deleg_domain) # "") =>
        /\ ParentAttempted
        /\ deleg_calls[2].outcome.kind = "answer"
              => deleg_result.parent_servers = deleg_calls[2].outcome.records

(***************************************************************************)
(*                   Properties of detect_dns_provider                     *)
(***************************************************************************)

\* The providers with at least one pattern that is a substring of at least
\* one lower-cased nameserver without its trailing dots.
MatchedProviders ==
    LET names == {RStripDots(Lower(ns_records[n])) : n \in DOMAIN ns_records}
    IN  {provider_patterns[k].provider : k \in
            {k \in DOMAIN provider_patterns :
                \E name \in names :
                    \E q \in DOMAIN provider_patterns[k].patterns :
                        Contains(provider_patterns[k].patterns[q], name)}}

\* The matched provider that comes first in the table.
FirstMatchedInTable ==
    LET first == CHOOSE k \in DOMAIN provider_patterns :
                    /\ provider_patterns[k].provider \in MatchedProviders
                    /\ \A j \in 1..(k - 1) :
                          provider_patterns[j].provider \notin MatchedProviders
    IN  provider_patterns[first].provider

\* The call returned a detection (the nameservers resolved).
Detected == vpc = "returned" /\ prov_result.errors = <<>>

\* C18: when the nameservers match patterns of more than one provider,
\* primary_provider is the matched provider that comes first in the pattern
\* table's insertion order, so it is a function of the nameserver list
\* alone.
C18_PrimaryIsFirstInTable ==
    (Detected /\ Cardinality(MatchedProviders) > 1) =>
        prov_result.primary_provider = FirstMatchedInTable

\* C19: detected_providers holds, exactly once each, every provider with a
\* pattern that is a substring of some lower-cased, trailing-dot-stripped
\* nameserver, and no other provider; when Cloudflare is the only provider
\* matched, detected_providers is [Cloudflare] and primary_provider is
\* Cloudflare.
C19_DetectedAreTheMatched ==
    Detected =>
        /\ SeqToSet(prov_result.detected_providers) = MatchedProviders
        /\ Len(prov_result.detected_providers) = Cardinality(MatchedProviders)
        /\ MatchedProviders = {"Cloudflare"} =>
              /\ prov_result.detected_providers = <<"Cloudflare">>
              /\ prov_result.primary_provider = "Cloudflare"

C19_Witness ==
    /\ Detected
    /\ ns_records = <<"ns1.cloudflare.com.", "NS2.Cloudflare.COM.">>
    /\ prov_result.nameservers = <<"ns1.cloudflare.com", "ns2.cloudflare.com">>
    /\ prov_result.detected_providers = <<"Cloudflare">>
    /\ prov_result.primary_provider = "Cloudflare"

\* C20: in every result, primary_provider is "Unknown" exactly when
\* detected_providers is empty, and a primary_provider other than that is a
\* member of detected_providers.
C20_UnknownIffNoneDetected ==
    vpc = "returned" =>
        /\ prov_result.primary_provider = "Unknown"
              <=> prov_result.detected_providers = <<>>
        /\ prov_result.detected_providers # <<>> =>
              prov_result.primary_provider
                  \in SeqToSet(prov_result.detected_providers)

C20_Witness ==
    /\ Detected
    /\ ns_records = <<"ns1.example.org.", "ns1.hostname.com.">>
    /\ prov_result.detected_providers = <<"Name.com">>
    /\ prov_result.primary_provider = "Name.com"

\* The NS resolution of this call failed: the function is past it and no
\* record arrived.
ResolutionFailed == vpc \notin {"idle", "resolve"} /\ ns_records = <<>>

\* C21: when the NS resolution fails, for whatever reason, detect_dns_provider
\* does not raise but returns at once a result with no nameservers, no
\* detected providers, primary_provider "Unknown" and exactly one error
\* string.
C21_ResolutionFailureReturnsEmpty ==
    ResolutionFailed =>
        /\ vpc = "returned"
        /\ prov_result.nameservers = <<>>
        /\ prov_result.detected_providers = <<>>
        /\ prov_result.primary_provider = "Unknown"
        /\ Len(prov_result.errors) = 1
        /\ \E o \in ProviderNsOutcomes :
              /\ o.kind = "raise"
              /\ prov_result.errors[1] = "Could not resolve nameservers: " \o o.exc

C21_Witness ==
    /\ ResolutionFailed
    /\ prov_result.errors =
          <<"Could not resolve nameservers: The DNS operation timed out.">>

(***************************************************************************)
(*                Properties of analyze_domain_queries                     *)
(***************************************************************************)

\* C22: a call with a duration of 0 still performs one sampling round and
\* returns a result whose summary has total_samples = 1 and a
\* recommendations list.
C22_ZeroDurationSamplesOnce ==
    (duration = 0 /\ apc \notin {"idle", "test"}) =>
        /\ sample_count = 1
        /\ apc = "returned" =>
              /\ analytics_summary.total_samples = 1
              /\ analytics_summary.recommendations # <<>>

\* C23: an interrupt that arrives while the call is sampling stops the
\* sampling, and the caller still receives the aggregate of the rounds
\* completed so far: the result with its summary, not only a message.
C23_InterruptReturnsAggregate ==
    /\ apc = "interrupted" =>
          (caller_got # "nothing" =>
              /\ caller_got = "result"
              /\ analytics_summary # NoAnalyticsSummary
              /\ analytics_summary.total_samples \in {sample_count - 1, sample_count})
    /\ apc \in {"interrupted", "returned", "raised"} => ~ENABLED SampleQueries

RECURSIVE SumOfTimes(_, _)
\* The response times summed over the types from the p-th on: their total
\* and their number.
SumOfTimes(qtypes, p) ==
    IF p > Len(qtypes) THEN [total_time |-> 0, count |-> 0]
    ELSE LET rest == SumOfTimes(qtypes, p + 1)
             rt == GetOr(query_distribution.average_response_times, qtypes[p],
                         [total_time |-> 0, count |-> 0])
         IN  [total_time |-> rest.total_time + rt.total_time,
              count |-> rest.count + rt.count]

\* The average of the response times sampled in the call is over 1000 ms.
AverageLatencyHigh ==
    SumOfTimes(query_types, 1).total_time > 1000 * SumOfTimes(query_types, 1).count

\* Some sampled query type succeeded in less than 95% of its rounds.
SomeTypeBelowMinimum ==
    \E q \in DOMAIN query_distribution.success_rates :
        query_distribution.success_rates[q].success * 100
            < 95 * query_distribution.success_rates[q].total

\* C30: the recommendations of the returned summary hold the high-latency
\* flag exactly when the average latency is over the threshold (1000 ms),
\* the distribution flag exactly when fewer than two distinct regions were
\* seen, and the low-success flag exactly when some query type's success
\* rate is below the minimum (95%).
C30_FlagsMatchThresholds ==
    apc = "returned" =>
        /\ RecHighLatency \in SeqToSet(analytics_summary.recommendations)
              <=> AverageLatencyHigh
        /\ RecDistribution \in SeqToSet(analytics_summary.recommendations)
              <=> Cardinality(geographic_analysis.location_frequency) < 2
        /\ RecLowSuccess \in SeqToSet(analytics_summary.recommendations)
              <=> SomeTypeBelowMinimum

(***************************************************************************)
(*            Properties of process_domains: interrupts, limits            *)
(***************************************************************************)

\* C24: after a user interrupt no further domain is started, and when the
\* call ends the caller has a summary of the domains completed so far whose
\* counters agree with the results accumulated up to the interrupt.
C24_InterruptKeepsSummary ==
    /\ [](bpc = "interrupted" =>
            /\ summary = GenerateSummary(progress, results)
            /\ summary.successful = Len(results))
    /\ [][(bpc \in {"shutdown", "interrupted"}) =>
            (\A i \in DOMAIN task : task'[i].started = task[i].started)]_vars

\* C26: a run whose check list holds an unknown check kind, or whose domain
\* list is empty, is reported before any work: no worker task is started
\* and no check is executed on any domain.
C26_InputFailureBeforeWork ==
    ((\E k \in DOMAIN checks : checks[k] \notin KnownChecks) \/ domains = <<>>) =>
        \A i \in DOMAIN task :
            /\ task[i].started = 0
            /\ task[i].state = "queued"

EndedByInterrupt ==
    happened[Len(happened)] \in {"KeyboardInterrupt", "caught KeyboardInterrupt"}

\* The run ended by an error that no except clause of the command handled.
EndedByUnhandledError == happened[Len(happened)] = "Exception"

\* C25: the process exits with a non-zero code when the run ended by an
\* unhandled error or by a user interrupt, also one inside the bulk,
\* query-analytics and dns-insights commands, and with zero in every other
\* case, whatever the verdict of the check.
C25_ExitCodeTellsHowRunEnded ==
    cpc = "exited" =>
        (exit_code # 0 <=> (EndedByInterrupt \/ EndedByUnhandledError))

(***************************************************************************)
(*                          Domain list loading                            *)
(***************************************************************************)

\* The entries written on one line of the file, whatever separates them.
EntriesOn(line) == SplitWords(Replace(Replace(line, ",", " "), ";", " "))

\* The lines of the file as written: non-blank, not starting with '#'.
WrittenLines(txt) ==
    {l \in {Split(txt, "\n")[k] : k \in DOMAIN Split(txt, "\n")} :
        Strip(l) # "" /\ ~StartsWith(Strip(l), "#")}

\* The syntax-valid domains found on the lines that count.
ExpectedDomains(txt) ==
    UNION {cleaned_domains(EntriesOn(l)) : l \in WrittenLines(txt)}

\* C28: the list returned for a file holds exactly the syntax-valid domains
\* found on its non-blank lines that do not start with '#', each at most
\* once; nothing written on a '#' line appears in it, whatever separators
\* that line contains.
C28_CommentLinesIgnored ==
    lpc = "returned" =>
       /\ {loaded[k] : k \in DOMAIN loaded} = ExpectedDomains(content)
       /\ \A j, k \in DOMAIN loaded : loaded[j] = loaded[k] => j = k

(***************************************************************************)
(*                        Provider settings check                          *)
(***************************************************************************)

\* r is a response that reports success false.
ReportsFailure(r) ==
    /\ r.kind = "response"
    /\ r.status_code = "200"
    /\ r.json
    /\ "success" \in DOMAIN r.body
    /\ ~r.body.success

\* r is a response with a status other than 200.
NotOk(r) == r.kind = "response" /\ r.status_code # "200"

\* The zones response is a success that lists no zone.
NoZone ==
    /\ zones_response.kind = "response"
    /\ zones_response.status_code = "200"
    /\ zones_response.json
    /\ "success" \in DOMAIN zones_response.body
    /\ zones_response.body.success
    /\ zones_response.body.result = <<>>

\* C29: a non-200 status on either request, or a 200 response that reports
\* success false or lists no zone, leaves at least one error string in the
\* errors of the result check_provider_settings returns.
C29_UnsuccessfulResponseRecorded ==
    (/\ spc = "returned"
     /\ \/ NotOk(zones_response) \/ ReportsFailure(zones_response) \/ NoZone
        \/ NotOk(records_response) \/ ReportsFailure(records_response))
        => settings_result.errors # <<>>

\* C31: in every result check_delegation returns, delegation_valid is false
\* exactly when errors is non-empty, and errors holds at most one entry,
\* whatever the resolver does for the domain and for its parent.
C31_InvalidIffOneError ==
    dpc = "returned" =>
       /\ (~deleg_result.delegation_valid) <=> (deleg_result.errors # <<>>)
       /\ Len(deleg_result.errors) <= 1

\* The domain answered with an empty list, the parent's resolution raised,
\* and the call returned invalid with a single error.
C31_Witness ==
    /\ dpc = "returned"
    /\ Len(deleg_calls) = 2
    /\ deleg_calls[2].outcome.kind # "answer"
    /\ ~deleg_result.delegation_valid
    /\ Len(deleg_result.errors) = 1

(***************************************************************************)
(*                    Slots of the servers mapping                         *)
(***************************************************************************)

\* The names whose slot of the mapping d has been written.
WrittenSlots(d) == {d[k].name : k \in 1..Len(d)}

\* The entry in the slot of name in the mapping d.
SlotOf(d, name) == d[CHOOSE k \in 1..Len(d) : d[k].name = name]

\* C32: during one check_propagation call a slot of the servers mapping,
\* once written, is not written again; a step writes one slot at most and
\* a worker's step (check_server running to its return) writes none, so no
\* two workers write the same slot; and the reduction to the verdicts
\* starts only when the slot of every roster server has been written.
C32_SlotsWrittenOnceBeforeReduction ==
    [][/\ \A name \in WrittenSlots(servers) :
             name \in WrittenSlots(servers') /\ SlotOf(servers', name) = SlotOf(servers, name)
       /\ Cardinality(WrittenSlots(servers') \ WrittenSlots(servers)) <= 1
       /\ (\E i \in DOMAIN future : future[i].state = "pending" /\ future'[i].state = "done")
             => (servers' = servers)
       /\ (ppc # "returned" /\ ppc' = "returned")
             => (WrittenSlots(servers) = {dns_servers[i].name : i \in Roster})]_vars

\* Two slots are written while a worker has not yet returned.
C32_Witness ==
    /\ ppc = "as_completed"
    /\ Cardinality(WrittenSlots(servers)) = 2
    /\ \E i \in Roster : future[i].state = "pending"

(***************************************************************************)
(*                     Publication of domain results                       *)
(***************************************************************************)

\* The checks loop of future i is over: it ran every check, or the call at
\* its position raised into the outer handler.
LoopOver(i) ==
    \/ task[i].pos > Len(checks)
    \/ task[i].pos \in task[i].raised /\ task[i].result.status = "failed"

\* C33: a domain's result is appended to results only when that domain's
\* checks loop is over (every check finished, or one raised) and its
\* function has returned; from then on neither the entry in results nor the
\* result dict it is taken from changes, so no reader of results, the
\* progress callback included, sees a result that changes afterwards.
C33_NoPartialPublication ==
    [][/\ Len(results') >= Len(results)
       /\ \A k \in 1..Len(results) : results'[k] = results[k]
       /\ (Len(results') > Len(results)) =>
             /\ Len(results') = Len(results) + 1
             /\ \E i \in 1..Len(task) :
                   /\ task[i].state = "done"
                   /\ LoopOver(i)
                   /\ results'[Len(results')] = task[i].result
       /\ \A i \in 1..Len(task) :
             (task[i].state = "done") => (task'[i].result = task[i].result)]_vars

\* A failed domain's result is in results while another domain's checks
\* loop is halfway through the list.
C33_Witness ==
    /\ Len(results) = 1
    /\ results[1].status = "failed"
    /\ \E i \in 1..Len(task) :
          /\ task[i].state = "running"
          /\ task[i].pos = 2
          /\ task[i].result.checks # {}

(***************************************************************************)
(*                   A raising check in one domain's run                   *)
(***************************************************************************)

\* The step is one in which the call made for the check at future i's
\* position raised.
RaisesNow(i) ==
    /\ task[i].state = "running"
    /\ task[i].pos <= Len(checks)
    /\ task'[i].raised = task[i].raised \cup {task[i].pos}
    /\ task[i].pos \notin task[i].raised

\* C36: when the call of the k-th check raises, the function returns
\* without running the checks after it, the entries of the checks before it
\* stay as they were, the status becomes failed and exactly one error, the
\* exception text, is appended; when the call that raises belongs to the
\* reverse-dns check, it is absorbed into that check's entry, status and
\* errors stay as they were and the loop goes on.  A finished domain has no
\* entry and no exception text for a check after the one that raised.
C36_RaisingCheckEndsDomain ==
    /\ [][\A i \in 1..Len(task) : RaisesNow(i) =>
            IF checks[task[i].pos] = "reverse-dns"
              THEN /\ task'[i].state = "running"
                   /\ task'[i].pos = task[i].pos + 1
                   /\ task'[i].result.status = task[i].result.status
                   /\ task'[i].result.errors = task[i].result.errors
                   /\ task'[i].result.checks = task[i].result.checks
                         \cup {<<"reverse-dns", "error: No A records found">>}
              ELSE /\ task'[i].state = "done"
                   /\ task'[i].pos = task[i].pos
                   /\ task'[i].result.status = "failed"
                   /\ task'[i].result.errors =
                         Append(task[i].result.errors, ExcText(checks[task[i].pos]))
                   /\ task'[i].result.checks = task[i].result.checks]_vars
    /\ [](\A i \in 1..Len(task) :
            (task[i].state = "done" /\ task[i].pos <= Len(checks)) =>
               \A q \in (task[i].pos + 1)..Len(checks) :
                  /\ q \notin task[i].raised
                  /\ ~\E c \in task[i].result.checks : c[1] = checks[q]
                  /\ ~InErrors(task[i].result, ExcText(checks[q]))
                  /\ ~InErrors(task[i].result, "Unknown check type: " \o checks[q]))

\* The second of two checks raised: the first check's entry is kept, the
\* domain is failed with the one exception text.
C36_Witness ==
    /\ checks = <<"delegation", "propagation">>
    /\ \E i \in 1..Len(task) :
          /\ task[i].state = "done"
          /\ task[i].pos = 2
          /\ task[i].raised = {2}
          /\ task[i].result.checks = {<<"delegation", "result">>}
          /\ task[i].result.status = "failed"
          /\ task[i].result.errors = <<ExcText("propagation")>>

(***************************************************************************)
(*                 The running aggregate of the sampling                   *)
(***************************************************************************)

\* The rounds whose query sample has been folded into the aggregate: the
\* round begun last is not among them while its sample is being collected.
RoundsFolded == IF apc = "sample" THEN sample_count - 1 ELSE sample_count

\* The query type has its three counters in the distribution.
Counted(dist, qtype) ==
    /\ qtype \in DOMAIN dist.query_counts
    /\ qtype \in DOMAIN dist.success_rates
    /\ qtype \in DOMAIN dist.average_response_times

\* C34: after k sampling rounds total_samples is k and, for every requested
\* type, success_rates.total and query_counts.samples are k, success is at
\* most total and average_response_times.count at most k.  In a round every
\* requested type gets one more in total, whatever happens to the others,
\* and a type whose query failed (no response time is recorded for it) gets
\* none in success.
C34_AggregateCountsRounds ==
    /\ [](/\ query_distribution.total_samples = RoundsFolded
          /\ RoundsFolded > 0 =>
                  \A k \in 1..Len(query_types) :
                     LET qtype == query_types[k]
                     IN  /\ Counted(query_distribution, qtype)
                         /\ query_distribution.success_rates[qtype].total = RoundsFolded
                         /\ query_distribution.query_counts[qtype].samples = RoundsFolded
                         /\ query_distribution.success_rates[qtype].success
                               <= query_distribution.success_rates[qtype].total
                         /\ query_distribution.average_response_times[qtype].count
                               <= RoundsFolded)
    /\ [][(apc = "sample" /\ apc' = "geo") =>
            \A k \in 1..Len(query_types) :
               LET qtype == query_types[k]
                   sr == GetOr(query_distribution.success_rates, qtype,
                               [success |-> 0, total |-> 0])
                   rt == GetOr(query_distribution.average_response_times, qtype,
                               [total_time |-> 0, count |-> 0])
               IN  /\ Counted(query_distribution', qtype)
                   /\ query_distribution'.success_rates[qtype].total = sr.total + 1
                   /\ query_distribution'.success_rates[qtype].success =
                         IF query_distribution'.average_response_times[qtype].count = rt.count
                           THEN sr.success ELSE sr.success + 1]_vars

\* Two rounds are folded in which every A query failed and every MX query
\* succeeded.
C34_Witness ==
    /\ apc = "test"
    /\ sample_count = 2
    /\ query_types = <<"A", "MX">>
    /\ query_distribution.success_rates["A"] = [success |-> 0, total |-> 2]
    /\ query_distribution.success_rates["MX"] = [success |-> 2, total |-> 2]
    /\ query_distribution.average_response_times["A"].count = 0

(***************************************************************************)
(*                         The sampling window                             *)
(***************************************************************************)

\* C35: a sampling round starts only while the time read is before the end
\* of the window; when every query and the sleep come to their end the call
\* returns, and it returns after the window has elapsed with a summary whose
\* total_samples is the number of rounds executed.
C35_WindowBoundsSampling ==
    /\ [][(sample_count' # sample_count) =>
             (now < end_time /\ sample_count' = sample_count + 1)]_vars
    /\ [](apc = "returned" =>
             /\ now >= end_time
             /\ analytics_summary.total_samples = sample_count
             /\ query_distribution.total_samples = sample_count)
    /\ <>(apc = "returned")

(***************************************************************************)
(*                       The summary of the result                         *)
(***************************************************************************)

\* C38: for every aggregate the sampling loop can leave, no rounds, rounds
\* whose queries all failed and rounds whose latencies are all 0 included,
\* _generate_analytics_summary returns a summary with a non-empty
\* recommendations list, and it never raises.
C38_SummaryNeverRaises ==
    /\ apc # "raised"
    /\ apc = "returned" => analytics_summary.recommendations # <<>>

(***************************************************************************)
(*                  Repeated runs on one processor                         *)
(***************************************************************************)

\* What a holder of the summary s reads in it, its lists followed.
SummaryRead(all_lists, s) ==
    [total_domains |-> s.total_domains, successful |-> s.successful,
     failed |-> s.failed, results |-> all_lists[s.results],
     errors |-> all_lists[s.errors]]

\* All the entries of the list are results made in the k-th call.
OnlyOfRun(results_list, k) ==
    \A j \in 1..Len(results_list) : results_list[j].timestamp = k

\* C37: every process_domains call starts from an empty results list and
\* zeroed completed and failed counters; during and after any sequence of
\* calls, results and the summary of a call count only that call's domains;
\* and what a summary returned by an earlier call reads is not changed by
\* anything a later call does.
C37_RunsDoNotMix ==
    /\ [][(rpc = "ready" /\ rpc' = "running") =>
            /\ lists'[self_results'] = <<>>
            /\ self_progress'.completed = 0
            /\ self_progress'.failed = 0]_vars
    /\ [](rpc = "running" =>
            /\ Len(lists[self_results]) = handled
            /\ OnlyOfRun(lists[self_results], Len(returned_summaries) + 1)
            /\ self_progress.completed = handled
            /\ self_progress.failed = Len(lists[self_progress.errors]))
    /\ [](\A k \in 1..Len(returned_summaries) :
            LET s == SummaryRead(lists, returned_summaries[k])
            IN  /\ Len(s.results) = s.total_domains
                /\ OnlyOfRun(s.results, k)
                /\ s.successful = s.total_domains
                /\ s.failed = Len(s.errors)
                /\ s.failed <= s.total_domains)
    /\ [][\A k \in 1..Len(returned_summaries) :
            /\ k <= Len(returned_summaries')
            /\ SummaryRead(lists', returned_summaries'[k])
                  = SummaryRead(lists, returned_summaries[k])]_vars

\* Two calls have returned: the first handled two domains and its callback
\* raised once, the second handled one domain.
C37_Witness ==
    /\ rpc = "ready"
    /\ Len(returned_summaries) = 2
    /\ SummaryRead(lists, returned_summaries[1]).total_domains = 2
    /\ Len(SummaryRead(lists, returned_summaries[1]).results) = 2
    /\ SummaryRead(lists, returned_summaries[1]).failed = 1
    /\ Len(SummaryRead(lists, returned_summaries[2]).results) = 1

====
